---- MODULE Spec2Model ----
(***************************************************************************)
(* Product-info rich-text processor (src/src/index.ts, enhanced server,    *)
(* lines 302-1184): raw text -> markdown -> product records -> HTML.       *)
(*                                                                         *)
(* A string is a sequence of characters.  An ASCII character is the        *)
(* one-character string itself; a CJK character is written "uXXXX", its    *)
(* code point, because a module is ASCII outside comments.                 *)
(***************************************************************************)
EXTENDS Integers, Sequences, FiniteSets, TLC

VARIABLES pc, server, tool, args, markdown, products, html, analysis, result,
          learnedPatterns, customTemplates, attributeUsageStats, earlier,
          source, json, output, exitCode, uri, readable, reply,
          industryHint, patternIndex, lastIndex, detected, iterations
vars == <<pc, server, tool, args, markdown, products, html, analysis, result,
          learnedPatterns, customTemplates, attributeUsageStats, earlier,
          source, json, output, exitCode, uri, readable, reply,
          industryHint, patternIndex, lastIndex, detected, iterations>>

----------------------------------------------------------------------------
(* Characters and the character classes the regular expressions use.       *)

NL == "\n"
CR == "\r"
SP == " "
FWColon == "uff1a"          \* ：
Indent16 == "                "   \* the 16 blanks generateHtml puts before a fragment
Indent8 == "        "            \* the 8 blanks generateHtml puts after a product

\* \s and String.prototype.trim: blanks and line ends
IsSpace(c) == c \in {SP, NL, CR, "\t", Indent16, Indent8}
\* what the dot of a regular expression does not match
IsLineTerminator(c) == c \in {NL, CR}
\* [：:]
IsColon(c) == c \in {FWColon, ":"}
\* \d
IsDigit(c) == c \in {"0", "1", "2", "3", "4", "5", "6", "7", "8", "9"}
\* [一二三四五六七八九十]
IsCnDigit(c) == c \in {"u4e00", "u4e8c", "u4e09", "u56db", "u4e94", "u516d",
                       "u4e03", "u516b", "u4e5d", "u5341"}
\* [，。！？]
IsCnPunct(c) == c \in {"uff0c", "u3002", "uff01", "uff1f"}

ShangPinMingCheng == <<"u5546", "u54c1", "u540d", "u79f0">>  \* 商品名称
ChanPinMingCheng == <<"u4ea7", "u54c1", "u540d", "u79f0">>   \* 产品名称
ChanPinXinXi == <<"u4ea7", "u54c1", "u4fe1", "u606f">>       \* 产品信息
ChanPin == <<"u4ea7", "u54c1">>                              \* 产品
PinPai == <<"u54c1", "u724c">>                               \* 品牌
YongTu == <<"u7528", "u9014">>                               \* 用途
GuiGe == <<"u89c4", "u683c">>                                \* 规格
XingHao == <<"u578b", "u53f7">>                              \* 型号
HuoHao == <<"u8d27", "u53f7">>                               \* 货号
CaiZhi == <<"u6750", "u8d28">>                               \* 材质
Tong == "u6876"                                              \* 桶

----------------------------------------------------------------------------
(* String primitives.                                                      *)

Min(S) == CHOOSE x \in S : \A y \in S : x <= y
Max(S) == CHOOSE x \in S : \A y \in S : x >= y

\* s.substring(from - 1): the characters from index from on
From(s, from) == SubSeq(s, from, Len(s))

\* String.prototype.trim
Trim(s) ==
  LET ns == {i \in 1..Len(s) : ~IsSpace(s[i])}
  IN  IF ns = {} THEN <<>> ELSE SubSeq(s, Min(ns), Max(ns))

\* whether t occurs in s at index p
StartsAt(s, p, t) ==
  /\ p >= 1
  /\ p + Len(t) - 1 <= Len(s)
  /\ \A i \in 1..Len(t) : s[p + i - 1] = t[i]

\* String.prototype.includes
Contains(s, t) == \E p \in 1..(Len(s) + 1) : StartsAt(s, p, t)
\* String.prototype.includes for one character
Includes(s, c) == \E i \in 1..Len(s) : s[i] = c

\* the first index >= p whose character is not in the class, Len(s)+1 if none
SkipSpace(s, p) == Min({i \in p..(Len(s) + 1) : i = Len(s) + 1 \/ ~IsSpace(s[i])})
SkipDigits(s, p) == Min({i \in p..(Len(s) + 1) : i = Len(s) + 1 \/ ~IsDigit(s[i])})
SkipCnDigits(s, p) == Min({i \in p..(Len(s) + 1) : i = Len(s) + 1 \/ ~IsCnDigit(s[i])})

\* s.split(c) for a one-character separator
RECURSIVE SplitChar(_, _)
SplitChar(s, c) ==
  LET at == {i \in 1..Len(s) : s[i] = c}
  IN  IF at = {} THEN <<s>>
      ELSE <<SubSeq(s, 1, Min(at) - 1)>> \o SplitChar(From(s, Min(at) + 1), c)

\* Array.prototype.filter / map over a sequence of strings
RECURSIVE FilterNonBlank(_)
FilterNonBlank(ss) ==
  IF ss = <<>> THEN <<>>
  ELSE (IF Len(Trim(Head(ss))) > 0 THEN <<Head(ss)>> ELSE <<>>) \o FilterNonBlank(Tail(ss))

MapTrim(ss) == [i \in 1..Len(ss) |-> Trim(ss[i])]

\* the decimal numeral of n, as template literals print it
RECURSIVE NumStr(_)
NumStr(n) ==
  LET d == <<"0", "1", "2", "3", "4", "5", "6", "7", "8", "9">>
  IN  IF n < 10 THEN <<d[n + 1]>> ELSE NumStr(n \div 10) \o <<d[(n % 10) + 1]>>

\* s.replace(/\s+/g, ' '): every run of blanks becomes one blank
RECURSIVE CollapseSpace(_)
CollapseSpace(s) ==
  IF s = <<>> THEN <<>>
  ELSE IF IsSpace(Head(s)) THEN <<SP>> \o CollapseSpace(From(s, SkipSpace(s, 1)))
  ELSE <<Head(s)>> \o CollapseSpace(Tail(s))

----------------------------------------------------------------------------
(* Regular-expression separators: the four productSeparators of            *)
(* splitIntoProducts and the block separator of parseMarkdownContent.      *)

SepBlankLine == 0   \* /\n\s*\n/
SepNumbered == 1    \* /\n\s*\d+[\.\)]\s*/g
SepCnNumbered == 2  \* /\n\s*[一二三四五六七八九十]+[\.\)、]\s*/g
SepChanPin == 3     \* /\n\s*产品\s*[：:]/g
SepShangPin == 4    \* /\n\s*商品名称\s*[：:]/g

\* a literal word, then \s*, then [：:], at index a: the index after the match, else 0
WordColonEnd(s, a, word) ==
  IF ~StartsAt(s, a, word) THEN 0
  ELSE LET c == SkipSpace(s, a + Len(word))
       IN  IF c <= Len(s) /\ IsColon(s[c]) THEN c + 1 ELSE 0

\* the index after the match of separator sep that starts at index p, 0 if none
SepEnd(sep, s, p) ==
  IF p > Len(s) \/ s[p] # NL THEN 0
  ELSE
    LET a == SkipSpace(s, p + 1)
    IN  CASE sep = SepBlankLine ->
               \* \s* is greedy and gives back up to the last line end of the run
               LET nls == {i \in (p + 1)..(a - 1) : s[i] = NL}
               IN  IF nls = {} THEN 0 ELSE Max(nls) + 1
          [] sep = SepNumbered ->
               LET b == SkipDigits(s, a)
               IN  IF b > a /\ b <= Len(s) /\ s[b] \in {".", ")"}
                   THEN SkipSpace(s, b + 1) ELSE 0
          [] sep = SepCnNumbered ->
               LET b == SkipCnDigits(s, a)
               IN  IF b > a /\ b <= Len(s) /\ s[b] \in {".", ")", "u3001"}
                   THEN SkipSpace(s, b + 1) ELSE 0
          [] sep = SepChanPin -> WordColonEnd(s, a, ChanPin)
          [] sep = SepShangPin -> WordColonEnd(s, a, ShangPinMingCheng)

\* the matches of a global regular expression from index from on: <<start, end>>,
\* leftmost first, not overlapping (String.prototype.match with /g, and split)
RECURSIVE Matches(_, _, _)
Matches(sep, s, from) ==
  LET starts == {p \in from..Len(s) : SepEnd(sep, s, p) # 0}
  IN  IF starts = {} THEN <<>>
      ELSE LET p == Min(starts)
           IN  <<(<<p, SepEnd(sep, s, p)>>)>> \o Matches(sep, s, SepEnd(sep, s, p))

\* s.split(separator)
RegexSplit(sep, s) ==
  LET ms == Matches(sep, s, 1)
      n == Len(ms)
  IN  [i \in 1..(n + 1) |->
         SubSeq(s, IF i = 1 THEN 1 ELSE ms[i - 1][2],
                   IF i = n + 1 THEN Len(s) ELSE ms[i][1] - 1)]

----------------------------------------------------------------------------
(* Attribute Extractor: src/src/index.ts 620-730.                          *)

\* rawText.split('\n').map(line => line.trim()).filter(line => line.length > 0)
NonEmptyLines(text) == FilterNonBlank(MapTrim(SplitChar(text, NL)))

\* lines.some(line => line.includes('：') || line.includes(':'))
hasColonFormat(lines) == \E i \in 1..Len(lines) : \E j \in 1..Len(lines[i]) : IsColon(lines[i][j])

\* !hasColonFormat && lines.length > 1 && lines.length % 2 === 0
IsLineByLine(lines) == ~hasColonFormat(lines) /\ Len(lines) > 1 /\ Len(lines) % 2 = 0

productSeparators == <<SepNumbered, SepCnNumbered, SepChanPin, SepShangPin>>

\* the for loop over productSeparators, from the k-th on
RECURSIVE SplitOnSeparators(_, _)
SplitOnSeparators(rawText, k) ==
  IF k > Len(productSeparators) THEN <<rawText>>
  ELSE IF Len(Matches(productSeparators[k], rawText, 1)) > 1
       THEN FilterNonBlank(RegexSplit(productSeparators[k], rawText))
       ELSE SplitOnSeparators(rawText, k + 1)

\* a variant that falls back to one product per line
splitIntoProductsByLine(rawText) ==
  IF IsLineByLine(NonEmptyLines(rawText)) THEN <<rawText>>
  ELSE IF SplitOnSeparators(rawText, 1) = <<rawText>> THEN SplitChar(rawText, NL)
  ELSE SplitOnSeparators(rawText, 1)

splitIntoProducts(rawText) ==
  IF IsLineByLine(NonEmptyLines(rawText)) THEN <<rawText>>
  ELSE SplitOnSeparators(rawText, 1)

\* `${attr}：${value}\n    `
AttrLine(attr, value) == attr \o <<FWColon>> \o value \o <<NL, SP, SP, SP, SP>>

knownAttributes == <<
    <<"u5546", "u54c1", "u540d", "u79f0">>,  \* 商品名称
    <<"u89c4", "u683c">>,  \* 规格
    <<"u5305", "u88c5", "u65b9", "u5f0f">>,  \* 包装方式
    <<"u6750", "u8d28">>,  \* 材质
    <<"u4fdd", "u8d28", "u671f">>,  \* 保质期
    <<"u751f", "u4ea7", "u65e5", "u671f">>,  \* 生产日期
    <<"u6267", "u884c", "u6807", "u51c6">>,  \* 执行标准
    <<"u4ea7", "u54c1", "u7279", "u70b9">>,  \* 产品特点
    <<"u6ce8", "u610f", "u4e8b", "u9879">>,  \* 注意事项
    <<"u751f", "u4ea7", "u5546">>,  \* 生产商
    <<"u5907", "u6848", "u4eba", "/", "u751f", "u4ea7", "u5546">>,  \* 备案人/生产商
    <<"u751f", "u4ea7", "u5546", "u5730", "u5740">>,  \* 生产商地址
    <<"u751f", "u4ea7", "u5546", "u5730", "u5740">>,  \* 生产商地址
    <<"u578b", "u53f7", "u89c4", "u683c">>,  \* 型号规格
    <<"u578b", "u53f7">>,  \* 型号
    <<"u6210", "u5206">>,  \* 成分
    <<"u529f", "u6548", "u6210", "u5206">>,  \* 功效成分
    <<"u603b", "u7ecf", "u9500">>,  \* 总经销
    <<"u670d", "u52a1", "u70ed", "u7ebf">>,  \* 服务热线
    <<"u5316", "u5986", "u54c1", "u751f", "u4ea7", "u8bb8", "u53ef", "u8bc1", "u7f16", "u53f7">>,  \* 化妆品生产许可证编号
    <<"u4ea7", "u5730">>,  \* 产地
    <<"u5236", "u9020", "u5546">>,  \* 制造商
    <<"u7535", "u8bdd">>,  \* 电话
    <<"u4ea7", "u54c1", "u578b", "u53f7">>,  \* 产品型号
    <<"u989d", "u5b9a", "u529f", "u7387">>,  \* 额定功率
    <<"u989d", "u5b9a", "u7535", "u538b">>,  \* 额定电压
    <<"u989d", "u5b9a", "u7535", "u6d41">>,  \* 额定电流
    <<"u4ea7", "u54c1", "u5c3a", "u5bf8">>,  \* 产品尺寸
    <<"u4ea7", "u54c1", "u51c0", "u91cd">>,  \* 产品净重
    <<"u6e05", "u6d17", "u69fd", "u5bb9", "u79ef">>,  \* 清洗槽容积
    <<"u51c0", "u542b", "u91cf">>,  \* 净含量
    <<"u6709", "u6548", "u65e5", "u671f">>,  \* 有效日期
    <<"u529f", "u6548">>,  \* 功效
    <<"u5176", "u4ed6", "u5fae", "u91cf", "u6210", "u5206">>,  \* 其他微量成分
    <<"u9632", "u9f8b", "u529f", "u6548", "u6210", "u5206">>,  \* 防龋功效成分
    <<"u8d2e", "u5b58", "u6761", "u4ef6">>,  \* 贮存条件
    <<"u4ea7", "u54c1", "u6267", "u884c", "u7684", "u6807", "u51c6", "u7f16", "u53f7">>,  \* 产品执行的标准编号
    <<"u751f", "u4ea7", "u8bb8", "u53ef", "u8bc1", "u7f16", "u53f7">>,  \* 生产许可证编号
    <<"u5907", "u6848", "u4eba", "/", "u751f", "u4ea7", "u4f01", "u4e1a">>,  \* 备案人/生产企业
    <<"u5916", "u6587", "u540d", "u79f0">>,  \* 外文名称
    <<"u751f", "u4ea7", "u5730", "u5740">>,  \* 生产地址
    <<"u95ed", "u5408", "u5c3a", "u5bf8">>,  \* 闭合尺寸
    <<"u5c55", "u5f00", "u5c3a", "u5bf8">>,  \* 展开尺寸
    <<"u9644", "u4ef6">>,  \* 附件
    <<"u533b", "u7597", "u5668", "u68b0", "u5206", "u7c7b">>,  \* 医疗器械分类
    <<"u533b", "u7597", "u5668", "u68b0", "u5907", "u6848", "u51ed", "u8bc1", "u7f16", "u53f7">>,  \* 医疗器械备案凭证编号
    <<"u751f", "u4ea7", "u5907", "u6848", "u51ed", "u8bc1", "u7f16", "u53f7">>,  \* 生产备案凭证编号
    <<"u9644", "u52a0", "u8bf4", "u660e">>,  \* 附加说明
    <<"u5c3a", "u5bf8">>,  \* 尺寸
    <<"u54c1", "u724c">>,  \* 品牌
    <<"u81ea", "u91cd">>,  \* 自重
    <<"u58c1", "u539a">>,  \* 壁厚
    <<"u52a0", "u5de5", "u5b9a", "u5236">>,  \* 加工定制
    <<"u662f", "u5426", "u8de8", "u5883", "u51fa", "u53e3", "u4e13", "u4f9b", "u8d27", "u6e90">>,  \* 是否跨境出口专供货源
    <<"u9ad8", "u5ea6">>,  \* 高度
    <<"u8d27", "u53f7">>,  \* 货号
    <<"u7528", "u9014">>,  \* 用途
    <<"u53e3", "u5f84">>,  \* 口径
    <<"u914d", "u76d6">>,  \* 配盖
    <<"u53ef", "u5426", "u5370", "L", "O", "G">>,  \* 可否印LOG
    <<"u4e3b", "u4f53", "u76f4", "u5f84">>,  \* 主体直径
    <<"u5bb9", "u91cf">>,  \* 容量
    <<"u6210", "u54c1", "u5916", "u5305", "u88c5">>,  \* 成品外包装
    <<"u5851", "u6599", "u54c1", "u79cd">>,  \* 塑料品种
    <<"u7eaf", "u6599", "u4e0e", "u518d", "u751f", "u6599", "u6bd4", "u4f8b">>  \* 纯料与再生料比例
  >>

NoMatch == <<0, 0>>

\* [^：:，。！？\n]
IsNameChar(c) == ~IsColon(c) /\ ~IsCnPunct(c) /\ c # NL
SkipNameChars(s, p) == Min({i \in p..(Len(s) + 1) : i = Len(s) + 1 \/ ~IsNameChar(s[i])})

\* /(?:商品名称|产品名称)[：:]\s*([^：:，。！？\n]+)/ matched at index p: the span
\* <<first, last>> of the capture group, NoMatch if there is no match at p.
\* \s* is greedy and gives blanks back until the group can start.
NameMatchAt(s, p) ==
  LET c == p + Len(ShangPinMingCheng)
  IN  IF ~(StartsAt(s, p, ShangPinMingCheng) \/ StartsAt(s, p, ChanPinMingCheng)) THEN NoMatch
      ELSE IF c > Len(s) \/ ~IsColon(s[c]) THEN NoMatch
      ELSE LET a == SkipSpace(s, c + 1)
               qs == {q \in (c + 1)..a : q <= Len(s) /\ IsNameChar(s[q])}
           IN  IF qs = {} THEN NoMatch
               ELSE <<Max(qs), SkipNameChars(s, Max(qs)) - 1>>

\* processedText.match(...): the leftmost match
nameMatch(s) ==
  LET ps == {p \in 1..Len(s) : NameMatchAt(s, p) # NoMatch}
  IN  IF ps = {} THEN NoMatch ELSE NameMatchAt(s, Min(ps))

\* the lookahead's first branch, \s*(?:A1|...|An)[：:], at index e
KnownAttrAhead(s, e) ==
  LET a == SkipSpace(s, e)
  IN  \E k \in 1..Len(knownAttributes) :
        /\ StartsAt(s, a, knownAttributes[k])
        /\ a + Len(knownAttributes[k]) <= Len(s)
        /\ IsColon(s[a + Len(knownAttributes[k])])

\* `${attr}[：:]\s*([^：:]*?)(?=\s*(?:A1|...|An)[：:]|$)` matched at index p: the
\* span <<first, last>> of the capture group (last = first - 1 when it is empty),
\* NoMatch if there is no match at p.  The group is lazy: it ends at the first index
\* where the lookahead holds, and it cannot cross a colon.  Giving blanks of \s*
\* back never helps: the lookahead skips the same blanks.
AttrMatchAt(s, p, attr) ==
  LET c == p + Len(attr)
  IN  IF ~StartsAt(s, p, attr) THEN NoMatch
      ELSE IF c > Len(s) \/ ~IsColon(s[c]) THEN NoMatch
      ELSE LET v == SkipSpace(s, c + 1)
               es == {e \in v..(Len(s) + 1) :
                        /\ \A i \in v..(e - 1) : ~IsColon(s[i])
                        /\ (e = Len(s) + 1 \/ KnownAttrAhead(s, e))}
           IN  IF es = {} THEN NoMatch ELSE <<v, Min(es) - 1>>

\* pattern.exec(processedText) on a fresh pattern: the leftmost match
attrMatch(s, attr) ==
  LET ps == {p \in 1..Len(s) : AttrMatchAt(s, p, attr) # NoMatch}
  IN  IF ps = {} THEN NoMatch ELSE AttrMatchAt(s, Min(ps), attr)

\* value.replace(/[，。！？]+$/, '')
StripTrailingPunct(v) ==
  LET keep == {i \in 0..Len(v) : \A j \in (i + 1)..Len(v) : IsCnPunct(v[j])}
  IN  SubSeq(v, 1, Min(keep))

\* the body of the loop over knownAttributes for one attr: the text it appends
AttrOutput(s, attr) ==
  IF attr = ShangPinMingCheng THEN <<>>
  ELSE LET m == attrMatch(s, attr)
       IN  IF m = NoMatch \/ m[2] < m[1] THEN <<>>
           ELSE LET value == Trim(StripTrailingPunct(Trim(SubSeq(s, m[1], m[2]))))
                IN  IF Len(value) > 0 THEN AttrLine(attr, value) ELSE <<>>

RECURSIVE AttrOutputs(_, _)
AttrOutputs(s, k) ==
  IF k > Len(knownAttributes) THEN <<>>
  ELSE AttrOutput(s, knownAttributes[k]) \o AttrOutputs(s, k + 1)

parseTraditionalFormat(productText) ==
  LET processedText == Trim(CollapseSpace(productText))
      nm == nameMatch(processedText)
      nameLine == IF nm = NoMatch THEN <<>>
                  ELSE AttrLine(ShangPinMingCheng, Trim(SubSeq(processedText, nm[1], nm[2])))
  IN  Trim(nameLine \o AttrOutputs(processedText, 1))

\* the loop over the pairs of lines, from line i on
RECURSIVE PairLines(_, _)
PairLines(lines, i) ==
  IF i > Len(lines) THEN <<>>
  ELSE (IF Len(lines[i]) > 0 /\ Len(lines[i + 1]) > 0
        THEN AttrLine(lines[i], lines[i + 1]) ELSE <<>>) \o PairLines(lines, i + 2)

parseProductText(productText) ==
  LET lines == NonEmptyLines(productText)
  IN  IF IsLineByLine(lines) THEN Trim(PairLines(lines, 1))
      ELSE parseTraditionalFormat(productText)

\* a variant that ends a product with one line end, not with a blank line
RECURSIVE NumberedBlocksOneLineEnd(_, _)
NumberedBlocksOneLineEnd(productTexts, i) ==
  IF i > Len(productTexts) THEN <<>>
  ELSE NumStr(i) \o <<".", SP, SP>> \o parseProductText(productTexts[i]) \o <<NL>>
       \o NumberedBlocksOneLineEnd(productTexts, i + 1)

\* the loop of parseRawTextToMarkdown, from the i-th product text on
RECURSIVE NumberedBlocks(_, _)
NumberedBlocks(productTexts, i) ==
  IF i > Len(productTexts) THEN <<>>
  ELSE NumStr(i) \o <<".", SP, SP>> \o parseProductText(productTexts[i]) \o <<NL, NL>>
       \o NumberedBlocks(productTexts, i + 1)

parseRawTextToMarkdown(rawText) == Trim(NumberedBlocks(splitIntoProducts(rawText), 1))

----------------------------------------------------------------------------
(* A JavaScript object used as a map (Product.attributes).  The object is  *)
(* kept as the sequence of its <<key, value>> properties in the order of   *)
(* their creation; Object.entries lists the array-index keys first, in     *)
(* ascending numeric order, then the other keys in creation order.         *)

EmptyObject == <<>>

\* obj[k], with undefined (and any other falsy value) as the empty string
ObjGet(obj, k) ==
  IF \E i \in 1..Len(obj) : obj[i][1] = k
  THEN obj[CHOOSE i \in 1..Len(obj) : obj[i][1] = k][2]
  ELSE <<>>

\* obj[k] = v
ObjSet(obj, k, v) ==
  IF \E i \in 1..Len(obj) : obj[i][1] = k
  THEN [i \in 1..Len(obj) |-> IF obj[i][1] = k THEN <<k, v>> ELSE obj[i]]
  ELSE Append(obj, <<k, v>>)

ObjKeys(obj) == [i \in 1..Len(obj) |-> obj[i][1]]

DigitVal(c) == CHOOSE d \in 0..9 : NumStr(d) = <<c>>

\* a <= b for two canonical decimal numerals: by length, then digit by digit
NumLeq(a, b) ==
  \/ Len(a) < Len(b)
  \/ /\ Len(a) = Len(b)
     /\ LET diff == {i \in 1..Len(a) : a[i] # b[i]}
        IN  diff = {} \/ DigitVal(a[Min(diff)]) < DigitVal(b[Min(diff)])

\* 2^32 - 2, the largest array index
MaxArrayIndex == <<"4", "2", "9", "4", "9", "6", "7", "2", "9", "4">>

\* a canonical numeric string below 2^32 - 1
IsArrayIndex(k) ==
  /\ Len(k) >= 1
  /\ \A i \in 1..Len(k) : IsDigit(k[i])
  /\ (Len(k) = 1 \/ k[1] # "0")
  /\ NumLeq(k, MaxArrayIndex)

\* the properties whose keys are array indices, in ascending order
RECURSIVE IndexEntries(_)
IndexEntries(obj) ==
  LET is == {i \in 1..Len(obj) : IsArrayIndex(obj[i][1])}
  IN  IF is = {} THEN <<>>
      ELSE LET m == CHOOSE i \in is : \A j \in is : NumLeq(obj[i][1], obj[j][1])
           IN  <<obj[m]>> \o IndexEntries([i \in 1..(Len(obj) - 1) |->
                                             IF i < m THEN obj[i] ELSE obj[i + 1]])

RECURSIVE NamedEntries(_)
NamedEntries(obj) ==
  IF obj = <<>> THEN <<>>
  ELSE (IF IsArrayIndex(Head(obj)[1]) THEN <<>> ELSE <<Head(obj)>>) \o NamedEntries(Tail(obj))

\* Object.entries(obj)
ObjectEntries(obj) == IndexEntries(obj) \o NamedEntries(obj)

----------------------------------------------------------------------------
(* parseMarkdownContent: src/src/index.ts 1056-1134.                       *)

\* /^\d+\./.test(block)
StartsWithNumber(block) ==
  LET d == SkipDigits(block, 1)
  IN  d > 1 /\ d <= Len(block) /\ block[d] = "."

\* firstLine.replace(/^\d+\.\s*/, '')
StripNumber(line) ==
  IF StartsWithNumber(line) THEN From(line, SkipSpace(line, SkipDigits(line, 1) + 1))
  ELSE line

\* \s*(.+) matched right after index c: the span of the group, NoMatch if none.
\* The dot matches any character but a line end; \s* is greedy and gives blanks
\* back until the group can start.
RestAfter(s, c) ==
  LET a == SkipSpace(s, c + 1)
      qs == {q \in (c + 1)..a : q <= Len(s) /\ ~IsLineTerminator(s[q])}
  IN  IF qs = {} THEN NoMatch
      ELSE <<Max(qs),
             Min({i \in Max(qs)..(Len(s) + 1) : i = Len(s) + 1 \/ IsLineTerminator(s[i])}) - 1>>

\* firstLine.match(/商品名称[：:]\s*(.+)/): the span of the group
productNameMatch(firstLine) ==
  LET c(p) == p + Len(ShangPinMingCheng)
      ps == {p \in 1..Len(firstLine) :
               /\ StartsAt(firstLine, p, ShangPinMingCheng)
               /\ c(p) <= Len(firstLine)
               /\ IsColon(firstLine[c(p)])
               /\ RestAfter(firstLine, c(p)) # NoMatch}
  IN  IF ps = {} THEN NoMatch ELSE RestAfter(firstLine, c(Min(ps)))

\* line.match(/([^:：]+)[：:]\s*(.+)/): <<name first, name last, value first, value last>>
\* for the leftmost match, <<>> if none.  The first group runs up to the next colon.
lineAttrMatch(line) ==
  LET colon(i) == Min({c \in i..(Len(line) + 1) : c = Len(line) + 1 \/ IsColon(line[c])})
      ok(i) == /\ ~IsColon(line[i])
               /\ colon(i) <= Len(line)
               /\ RestAfter(line, colon(i)) # NoMatch
      is == {i \in 1..Len(line) : ok(i)}
  IN  IF is = {} THEN <<>>
      ELSE LET i == Min(is)
               r == RestAfter(line, colon(i))
           IN  <<i, colon(i) - 1, r[1], r[2]>>

\* the name a block's first line gives (lines 1074-1082)
firstLineName(firstLine) ==
  LET m == productNameMatch(firstLine)
      fallbackName == Trim(StripNumber(firstLine))
  IN  IF m # NoMatch THEN Trim(SubSeq(firstLine, m[1], m[2]))
      ELSE IF fallbackName # <<>> THEN fallbackName ELSE ChanPinXinXi

\* "Intelligently determine product name from key attributes" (lines 1098-1111);
\* attributes already hold attrName
nameFromAttribute(name, attributes, attrName, attrValue) ==
  IF ~(name = ChanPinXinXi \/ name = <<>>) THEN name
  ELSE IF attrName = ShangPinMingCheng \/ attrName = ChanPinMingCheng THEN attrValue
  ELSE IF attrName = PinPai /\ ObjGet(attributes, YongTu) # <<>>
       THEN attrValue \o <<SP>> \o ObjGet(attributes, YongTu)
  ELSE IF attrName = YongTu /\ ObjGet(attributes, PinPai) # <<>>
       THEN ObjGet(attributes, PinPai) \o <<SP>> \o attrValue
  ELSE IF attrName = YongTu /\ ObjGet(attributes, PinPai) = <<>> THEN attrValue
  ELSE IF attrName = GuiGe /\ Includes(attrValue, Tong) THEN SplitChar(attrValue, ",")[1]
  ELSE name

\* a variant that keeps the value as the pattern matched it
lineStepUntrimmed(product, rawLine) ==
  LET line == Trim(rawLine)
      m == lineAttrMatch(line)
  IN  IF line = <<>> \/ m = <<>> THEN product
      ELSE LET attrName == Trim(SubSeq(line, m[1], m[2]))
               attrValue == SubSeq(line, m[3], m[4])
               attributes == ObjSet(product.attributes, attrName, attrValue)
           IN  [name |-> nameFromAttribute(product.name, attributes, attrName, attrValue),
                attributes |-> attributes]

\* the body of the loop over the lines after the first (lines 1085-1113)
lineStep(product, rawLine) ==
  LET line == Trim(rawLine)
      m == lineAttrMatch(line)
  IN  IF line = <<>> \/ m = <<>> THEN product
      ELSE LET attrName == Trim(SubSeq(line, m[1], m[2]))
               attrValue == Trim(SubSeq(line, m[3], m[4]))
               attributes == ObjSet(product.attributes, attrName, attrValue)
           IN  [name |-> nameFromAttribute(product.name, attributes, attrName, attrValue),
                attributes |-> attributes]

RECURSIVE linesLoop(_, _, _)
linesLoop(product, lines, i) ==
  IF i > Len(lines) THEN product
  ELSE linesLoop(lineStep(product, lines[i]), lines, i + 1)

keyAttrs == <<PinPai, YongTu, GuiGe, XingHao, HuoHao>>

\* a variant without the final fallback
finalNameSkipped(product) == product.name

\* "Final fallback for product name" (lines 1115-1127)
finalName(product) ==
  IF ~(product.name = <<>> \/ product.name = ChanPinXinXi) THEN product.name
  ELSE LET ks == {k \in 1..Len(keyAttrs) : ObjGet(product.attributes, keyAttrs[k]) # <<>>}
       IN  IF ks # {} THEN ObjGet(product.attributes, keyAttrs[Min(ks)])
           ELSE ChanPinXinXi

\* the product of one numbered block
parseBlock(block) ==
  LET lines == SplitChar(block, NL)
      first == [name |-> firstLineName(Trim(lines[1])), attributes |-> EmptyObject]
      product == linesLoop(first, lines, 2)
  IN  [name |-> finalName(product), attributes |-> product.attributes]

\* a variant that takes every block that is not blank, numbered or not
RECURSIVE blocksLoopAnyBlock(_, _)
blocksLoopAnyBlock(productBlocks, i) ==
  IF i > Len(productBlocks) THEN <<>>
  ELSE (IF Trim(productBlocks[i]) # <<>>
        THEN <<parseBlock(productBlocks[i])>> ELSE <<>>)
       \o blocksLoopAnyBlock(productBlocks, i + 1)

RECURSIVE blocksLoop(_, _)
blocksLoop(productBlocks, i) ==
  IF i > Len(productBlocks) THEN <<>>
  ELSE (IF Trim(productBlocks[i]) # <<>> /\ StartsWithNumber(productBlocks[i])
        THEN <<parseBlock(productBlocks[i])>> ELSE <<>>) \o blocksLoop(productBlocks, i + 1)

parseMarkdownContent(markdownContent) ==
  blocksLoop(RegexSplit(SepBlankLine, markdownContent), 1)

----------------------------------------------------------------------------
(* Record Renderer: generateHtml, src/src/index.ts 1136-1174.  The fixed   *)
(* text of a template between two placeholders is one character of the     *)
(* model (its style attributes are left out), and so is a placeholder.     *)

HtmlOpen == "<html><head>..</head><body><div class=rich-text-content>"
HtmlClose == "</div></body></html>"
ProductOpen == "<div class=product-info><h4>"
ProductMid == "</h4><ul>"
ProductClose == "</ul></div>"
AttrOpen == "<p><strong>"
AttrMid == ":</strong><span>"
AttrClose == "</span></p>"

htmlTemplate == <<HtmlOpen, NL, Indent8, "{products_html}", NL, HtmlClose>>
productTemplate == <<ProductOpen, "{product_name}", ProductMid, NL, Indent16,
                     "{attributes_html}", NL, ProductClose>>
attributeTemplate == <<AttrOpen, "{attr_name}", AttrMid, "{attr_value}", AttrClose>>

\* the text a replacement string stands for: $$ is a dollar sign, $& the match,
\* $` the text before the match and $' the text after it
RECURSIVE Expand(_, _, _, _)
Expand(replacement, matched, before, after) ==
  IF replacement = <<>> THEN <<>>
  ELSE (CASE Head(replacement) = "$$" -> <<"$">>
          [] Head(replacement) = "$&" -> matched
          [] Head(replacement) = "$`" -> before
          [] Head(replacement) = "$'" -> after
          [] OTHER -> <<Head(replacement)>>)
       \o Expand(Tail(replacement), matched, before, after)

\* s.replace(pattern, replacement) for a string pattern: the first occurrence only
StringReplace(s, pattern, replacement) ==
  LET at == {i \in 1..Len(s) : s[i] = pattern}
  IN  IF at = {} THEN s
      ELSE LET i == Min(at)
               before == SubSeq(s, 1, i - 1)
               after == From(s, i + 1)
           IN  before \o Expand(replacement, <<pattern>>, before, after) \o after

\* the inner loop of generateHtml: attributesHtml, from the i-th entry on
RECURSIVE attributesHtml(_, _)
attributesHtml(entries, i) ==
  IF i > Len(entries) THEN <<>>
  ELSE <<Indent16>>
       \o StringReplace(StringReplace(attributeTemplate, "{attr_name}", entries[i][1]),
                        "{attr_value}", entries[i][2])
       \o <<NL>> \o attributesHtml(entries, i + 1)

\* the outer loop of generateHtml: productsHtml, from the i-th product on
RECURSIVE productsHtml(_, _)
productsHtml(ps, i) ==
  IF i > Len(ps) THEN <<>>
  ELSE StringReplace(StringReplace(productTemplate, "{product_name}", ps[i].name),
                     "{attributes_html}",
                     Trim(attributesHtml(ObjectEntries(ps[i].attributes), 1)))
       \o <<NL, Indent8>> \o productsHtml(ps, i + 1)

\* a variant that fills the document only when there is a product
generateHtmlIfAny(ps) ==
  IF ps = <<>> THEN htmlTemplate
  ELSE StringReplace(htmlTemplate, "{products_html}", Trim(productsHtml(ps, 1)))

generateHtml(ps) == StringReplace(htmlTemplate, "{products_html}", Trim(productsHtml(ps, 1)))

----------------------------------------------------------------------------
(* The basic server: src/src/index.ts 1-300.  Its extractor knows a shorter   *)
(* catalog and one product only, its parser takes the name from the first     *)
(* line only, its renderer trims nothing.                                     *)

basicAttributes == <<
    <<"u5546", "u54c1", "u540d", "u79f0">>,  \* 商品名称
    <<"u89c4", "u683c">>,  \* 规格
    <<"u5305", "u88c5", "u65b9", "u5f0f">>,  \* 包装方式
    <<"u6750", "u8d28">>,  \* 材质
    <<"u4fdd", "u8d28", "u671f">>,  \* 保质期
    <<"u751f", "u4ea7", "u65e5", "u671f">>,  \* 生产日期
    <<"u6267", "u884c", "u6807", "u51c6">>,  \* 执行标准
    <<"u4ea7", "u54c1", "u7279", "u70b9">>,  \* 产品特点
    <<"u6ce8", "u610f", "u4e8b", "u9879">>,  \* 注意事项
    <<"u751f", "u4ea7", "u5546">>,  \* 生产商
    <<"u5907", "u6848", "u4eba", "/", "u751f", "u4ea7", "u5546">>,  \* 备案人/生产商
    <<"u751f", "u4ea7", "u5546", "u5730", "u5740">>,  \* 生产商地址
    <<"u5907", "u6848", "u4eba", "/", "u751f", "u4ea7", "u5546", "u5730", "u5740">>,  \* 备案人/生产商地址
    <<"u578b", "u53f7", "u89c4", "u683c">>,  \* 型号规格
    <<"u6210", "u5206">>,  \* 成分
    <<"u529f", "u6548", "u6210", "u5206">>,  \* 功效成分
    <<"u603b", "u7ecf", "u9500">>,  \* 总经销
    <<"u670d", "u52a1", "u70ed", "u7ebf">>,  \* 服务热线
    <<"u5316", "u5986", "u54c1", "u751f", "u4ea7", "u8bb8", "u53ef", "u8bc1", "u7f16", "u53f7">>,  \* 化妆品生产许可证编号
    <<"u4ea7", "u5730">>,  \* 产地
    <<"u5236", "u9020", "u5546">>,  \* 制造商
    <<"u7535", "u8bdd">>,  \* 电话
    <<"u4ea7", "u54c1", "u578b", "u53f7">>,  \* 产品型号
    <<"u989d", "u5b9a", "u529f", "u7387">>,  \* 额定功率
    <<"u989d", "u5b9a", "u7535", "u538b">>,  \* 额定电压
    <<"u989d", "u5b9a", "u7535", "u6d41">>,  \* 额定电流
    <<"u4ea7", "u54c1", "u5c3a", "u5bf8">>,  \* 产品尺寸
    <<"u4ea7", "u54c1", "u51c0", "u91cd">>,  \* 产品净重
    <<"u6e05", "u6d17", "u69fd", "u5bb9", "u79ef">>  \* 清洗槽容积
  >>

\* [^${attributes.join('')}]: any character that stands in no name of the catalog
basicIsValueChar(c) ==
  \A k \in 1..Len(basicAttributes) : \A i \in 1..Len(basicAttributes[k]) :
    basicAttributes[k][i] # c

\* the lookahead's first branch, \s*(?:A1|...|An)[：:], at index e
basicAttrAhead(s, e) ==
  LET a == SkipSpace(s, e)
  IN  \E k \in 1..Len(basicAttributes) :
        /\ StartsAt(s, a, basicAttributes[k])
        /\ a + Len(basicAttributes[k]) <= Len(s)
        /\ IsColon(s[a + Len(basicAttributes[k])])

\* `${attr}[：:]\s*([^...]*?)(?=\s*(?:A1|...|An)[：:]|$)` matched at index p: the span
\* of the capture group, NoMatch if there is no match at p.  The group is lazy and
\* cannot cross a character of a catalog name.
basicAttrMatchAt(s, p, attr) ==
  LET c == p + Len(attr)
  IN  IF ~StartsAt(s, p, attr) THEN NoMatch
      ELSE IF c > Len(s) \/ ~IsColon(s[c]) THEN NoMatch
      ELSE LET v == SkipSpace(s, c + 1)
               es == {e \in v..(Len(s) + 1) :
                        /\ \A i \in v..(e - 1) : basicIsValueChar(s[i])
                        /\ (e = Len(s) + 1 \/ basicAttrAhead(s, e))}
           IN  IF es = {} THEN NoMatch ELSE <<v, Min(es) - 1>>

\* pattern.exec(processedText) on a fresh pattern: the leftmost match
basicAttrMatch(s, attr) ==
  LET ps == {p \in 1..Len(s) : basicAttrMatchAt(s, p, attr) # NoMatch}
  IN  IF ps = {} THEN NoMatch ELSE basicAttrMatchAt(s, Min(ps), attr)

\* the body of the loop over attributes (lines 187-196): the text it appends
basicAttrOutput(s, attr) ==
  LET m == basicAttrMatch(s, attr)
  IN  IF m = NoMatch \/ m[2] < m[1] THEN <<>>
      ELSE LET value == Trim(SubSeq(s, m[1], m[2]))
           IN  IF Len(value) > 0 THEN AttrLine(attr, value) ELSE <<>>

RECURSIVE basicAttrOutputs(_, _)
basicAttrOutputs(s, k) ==
  IF k > Len(basicAttributes) THEN <<>>
  ELSE basicAttrOutput(s, basicAttributes[k]) \o basicAttrOutputs(s, k + 1)

basicParseRawTextToMarkdown(rawText) ==
  Trim(<<"1", ".", SP, SP>> \o basicAttrOutputs(rawText, 1))

\* the name a block's first line gives (lines 219-226)
basicFirstLineName(firstLine) ==
  LET m == productNameMatch(firstLine)
  IN  IF m # NoMatch THEN Trim(SubSeq(firstLine, m[1], m[2]))
      ELSE Trim(StripNumber(firstLine))

\* the body of the loop over the lines after the first (lines 229-242)
basicLineStep(product, rawLine) ==
  LET line == Trim(rawLine)
      m == lineAttrMatch(line)
  IN  IF line = <<>> \/ m = <<>> THEN product
      ELSE [name |-> product.name,
            attributes |-> ObjSet(product.attributes, Trim(SubSeq(line, m[1], m[2])),
                                  Trim(SubSeq(line, m[3], m[4])))]

RECURSIVE basicLinesLoop(_, _, _)
basicLinesLoop(product, lines, i) ==
  IF i > Len(lines) THEN product
  ELSE basicLinesLoop(basicLineStep(product, lines[i]), lines, i + 1)

\* the product of one numbered block
basicParseBlock(block) ==
  LET lines == SplitChar(block, NL)
  IN  basicLinesLoop([name |-> basicFirstLineName(Trim(lines[1])), attributes |-> EmptyObject],
                     lines, 2)

RECURSIVE basicBlocksLoop(_, _)
basicBlocksLoop(productBlocks, i) ==
  IF i > Len(productBlocks) THEN <<>>
  ELSE (IF Trim(productBlocks[i]) # <<>> /\ StartsWithNumber(productBlocks[i])
        THEN <<basicParseBlock(productBlocks[i])>> ELSE <<>>)
       \o basicBlocksLoop(productBlocks, i + 1)

basicParseMarkdownContent(markdownContent) ==
  basicBlocksLoop(RegexSplit(SepBlankLine, markdownContent), 1)

\* the templates of the basic generateHtml (lines 264-273) start with a line end
basicProductTemplate == <<NL, Indent8, ProductOpen, "{product_name}", ProductMid, NL, Indent16,
                          "{attributes_html}", NL, ProductClose>>
basicAttributeTemplate == <<NL, Indent16, AttrOpen, "{attr_name}", AttrMid, "{attr_value}",
                            AttrClose>>

RECURSIVE basicAttributesHtml(_, _)
basicAttributesHtml(entries, i) ==
  IF i > Len(entries) THEN <<>>
  ELSE StringReplace(StringReplace(basicAttributeTemplate, "{attr_name}", entries[i][1]),
                     "{attr_value}", entries[i][2])
       \o basicAttributesHtml(entries, i + 1)

RECURSIVE basicProductsHtml(_, _)
basicProductsHtml(ps, i) ==
  IF i > Len(ps) THEN <<>>
  ELSE StringReplace(StringReplace(basicProductTemplate, "{product_name}", ps[i].name),
                     "{attributes_html}",
                     basicAttributesHtml(ObjectEntries(ps[i].attributes), 1))
       \o basicProductsHtml(ps, i + 1)

basicGenerateHtml(ps) == StringReplace(htmlTemplate, "{products_html}", basicProductsHtml(ps, 1))

----------------------------------------------------------------------------
(* analyze_unstructured_content: performIntelligentAnalysis, src/src/index.ts *)
(* 844-883, for context = '' and industryHint = '', the defaults of line 605  *)
(* and the only values the requests of the model have.  A fixed phrase of the *)
(* result is one character of the model.                                      *)

ResultHeading == "**result:**"         \* **🔍 智能分析结果:**
OriginalLabel == "**original:** "      \* **原始内容:**
DetectedHeading == "**detected:**"     \* **🎯 检测到的属性模式:**
FormatHeading == "**format:**"         \* **📝 建议的结构化格式:**
Fence == "[fence]"                     \* the line that opens or closes a code block
AttrWord == "attr"                     \* 属性
DefaultTemplate == "default-template"  \* 建议格式： / 属性名称：属性值 / 规格型号：具体规格 / 技术参数：参数值

\* [^：:，。！？\s] and [^：:，。！？\n]
IsPatternNameChar(c) == ~IsColon(c) /\ ~IsCnPunct(c) /\ ~IsSpace(c)
IsPatternValueChar(c) == ~IsColon(c) /\ ~IsCnPunct(c) /\ c # NL
SkipPatternName(s, p) ==
  Min({i \in p..(Len(s) + 1) : i = Len(s) + 1 \/ ~IsPatternNameChar(s[i])})
SkipPatternValue(s, p) ==
  Min({i \in p..(Len(s) + 1) : i = Len(s) + 1 \/ ~IsPatternValueChar(s[i])})

\* /([^：:，。！？\s]{2,10})[：:]([^：:，。！？\n]{1,50})/ matched at index p: the index
\* after the match, 0 if there is none.  A name character is no colon, so the
\* name must be the whole run of name characters from p on.
StandardMatchEnd(s, p) ==
  LET c == SkipPatternName(s, p)
  IN  IF c - p >= 2 /\ c - p <= 10 /\ c <= Len(s) /\ IsColon(s[c])
         /\ SkipPatternValue(s, c + 1) > c + 1
      THEN Min({SkipPatternValue(s, c + 1), c + 1 + 50})
      ELSE 0

\* while ((match = pattern.exec(text)) !== null): match[0].trim() of every match
\* from lastIndex on
RECURSIVE ExecAll(_, _)
ExecAll(text, from) ==
  LET starts == {p \in from..Len(text) : StandardMatchEnd(text, p) # 0}
  IN  IF starts = {} THEN <<>>
      ELSE <<Trim(SubSeq(text, Min(starts), StandardMatchEnd(text, Min(starts)) - 1))>>
           \o ExecAll(text, StandardMatchEnd(text, Min(starts)))

\* if (matchedText && !detected.includes(matchedText)) detected.push(matchedText)
RECURSIVE PushNew(_, _)
PushNew(list, ms) ==
  IF ms = <<>> THEN list
  ELSE PushNew(IF Head(ms) # <<>> /\ \A i \in 1..Len(list) : list[i] # Head(ms)
               THEN Append(list, Head(ms)) ELSE list,
               Tail(ms))

\* The first of the five patterns.  The other four (measurement, model, date,
\* certification) need a digit or the word 认证, which no text of the model has.
detectAttributePatterns(text) == PushNew(<<>>, ExecAll(text, 1))

\* result += `${index + 1}. ${attr}\n`
RECURSIVE DetectedList(_, _)
DetectedList(list, i) ==
  IF i > Len(list) THEN <<>>
  ELSE NumStr(i) \o <<".", SP>> \o list[i] \o <<NL>> \o DetectedList(list, i + 1)

\* attr.match(/([^：:]+)[：:](.+)/) for a match of the pattern above (one colon, no
\* line end) and the line of the template it gives
TemplateLine(attr, i) ==
  LET cs == {j \in 1..Len(attr) : IsColon(attr[j])}
  IN  IF cs # {} /\ Min(cs) > 1 /\ Min(cs) < Len(attr)
      THEN Trim(SubSeq(attr, 1, Min(cs) - 1)) \o <<FWColon>> \o Trim(From(attr, Min(cs) + 1))
           \o <<NL>>
      ELSE <<AttrWord>> \o NumStr(i) \o <<FWColon>> \o attr \o <<NL>>

RECURSIVE TemplateLines(_, _)
TemplateLines(list, i) ==
  IF i > Len(list) THEN <<>>
  ELSE TemplateLine(list[i], i) \o TemplateLines(list, i + 1)

generateStructuredTemplate(detectedAttributes) ==
  IF Len(detectedAttributes) > 0
  THEN <<Fence, NL>> \o TemplateLines(detectedAttributes, 1) \o <<Fence, NL>>
  ELSE <<Fence, NL, DefaultTemplate, Fence, NL>>

performIntelligentAnalysis(unstructuredText) ==
  LET detectedAttributes == detectAttributePatterns(unstructuredText)
  IN  <<ResultHeading, NL, NL, OriginalLabel>> \o unstructuredText \o <<NL, NL>>
      \o (IF Len(detectedAttributes) > 0
          THEN <<DetectedHeading, NL>> \o DetectedList(detectedAttributes, 1) \o <<NL>>
          ELSE <<>>)
      \o <<FormatHeading, NL>> \o generateStructuredTemplate(detectedAttributes)

----------------------------------------------------------------------------
(* detectAttributePatterns, src/src/index.ts 885-927, one RegExp.exec call   *)
(* at a time.  A regular expression is a tree: a character class, a         *)
(* sequence, an alternation or a greedy repetition; groups only matter for  *)
(* match[0], which is the whole match.                                       *)

Unbounded == 0 - 1                     \* the upper bound of + and *
In(cs) == [k |-> "in", cs |-> cs]
NotIn(cs) == [k |-> "notin", cs |-> cs]
Lit(c) == In({c})
Cat(items) == [k |-> "seq", items |-> items]
Alt(items) == [k |-> "alt", items |-> items]
Rep(r, min, max) == [k |-> "rep", r |-> r, min |-> min, max |-> max]
Opt(r) == Rep(r, 0, 1)
Star(r) == Rep(r, 0, Unbounded)
Plus(r) == Rep(r, 1, Unbounded)
Word(w) == Cat([i \in 1..Len(w) |-> Lit(w[i])])
Words(ws) == Alt([i \in 1..Len(ws) |-> Word(ws[i])])

\* The index after every way the tree matches s from index p on, in the order
\* backtracking tries them: a repetition first takes one more round.  The ends
\* of a part are computed once, as the member es of a one-element set.
Only(S) == CHOOSE x \in S : TRUE
RECURSIVE Ends(_, _, _), CatEnds(_, _, _, _), CatOver(_, _, _, _, _), AltEnds(_, _, _, _)
RECURSIVE RepEnds(_, _, _, _), RepOver(_, _, _, _, _, _)
Ends(r, s, p) ==
  CASE r.k = "in" -> IF p <= Len(s) /\ s[p] \in r.cs THEN <<p + 1>> ELSE <<>>
    [] r.k = "notin" -> IF p <= Len(s) /\ s[p] \notin r.cs THEN <<p + 1>> ELSE <<>>
    [] r.k = "seq" -> CatEnds(r.items, 1, s, p)
    [] r.k = "alt" -> AltEnds(r.items, 1, s, p)
    [] r.k = "rep" -> RepEnds(r, 0, s, p)
CatEnds(items, i, s, p) ==
  IF i > Len(items) THEN <<p>>
  ELSE Only({CatOver(items, i, s, es, 1) : es \in {Ends(items[i], s, p)}})
CatOver(items, i, s, es, j) ==
  IF j > Len(es) THEN <<>>
  ELSE CatEnds(items, i + 1, s, es[j]) \o CatOver(items, i, s, es, j + 1)
AltEnds(items, i, s, p) ==
  IF i > Len(items) THEN <<>> ELSE Ends(items[i], s, p) \o AltEnds(items, i + 1, s, p)
RepEnds(r, n, s, p) ==
  (IF r.max = Unbounded \/ n < r.max
   THEN Only({RepOver(r, n, s, p, es, 1) : es \in {Ends(r.r, s, p)}})
   ELSE <<>>)
  \o (IF n >= r.min THEN <<p>> ELSE <<>>)
RepOver(r, n, s, p, es, j) ==
  IF j > Len(es) THEN <<>>
  ELSE (IF es[j] > p THEN RepEnds(r, n + 1, s, es[j]) ELSE <<>>)
       \o RepOver(r, n, s, p, es, j + 1)

\* the character classes of the patterns
Colons == {FWColon, ":"}
CnPuncts == {"uff0c", "u3002", "uff01", "uff1f"}             \* ，。！？
Spaces == {SP, NL, CR, "\t", Indent16, Indent8}              \* \s
DigitChars == {"0", "1", "2", "3", "4", "5", "6", "7", "8", "9"}
LetterChars ==
  {"A", "B", "C", "D", "E", "F", "G", "H", "I", "J", "K", "L", "M", "N", "O", "P", "Q",
   "R", "S", "T", "U", "V", "W", "X", "Y", "Z", "a", "b", "c", "d", "e", "f", "g", "h",
   "i", "j", "k", "l", "m", "n", "o", "p", "q", "r", "s", "t", "u", "v", "w", "x", "y",
   "z"}
WordChars == LetterChars \cup DigitChars \cup {"_"}          \* \w
Digit == In(DigitChars)
Decimal == Cat(<<Plus(Digit), Opt(Cat(<<Lit("."), Plus(Digit)>>))>>)   \* \d+(?:\.\d+)?
Colon == In(Colons)                                          \* [:：]
Blanks == Star(In(Spaces))                                   \* \s*
RestOfClause == Plus(NotIn({"uff0c", "u3002", NL}))          \* ([^，。\n]+)

\* a RegExp object: its tree and its g flag
Global(tree) == [tree |-> tree, global |-> TRUE]
NotGlobal(tree) == [tree |-> tree, global |-> FALSE]

\* /([^：:，。！？\s]{2,10})[：:]([^：:，。！？\n]{1,50})/g
StandardTree ==
  Cat(<<Rep(NotIn(Colons \cup CnPuncts \cup Spaces), 2, 10), Colon,
        Rep(NotIn(Colons \cup CnPuncts \cup {NL}), 1, 50)>>)
StandardPatternNotGlobal == NotGlobal(StandardTree)
StandardPattern == Global(StandardTree)
\* /(\d+(?:\.\d+)?)\s*(克|千克|毫升|升|厘米|米|寸|英寸|瓦|伏|安|赫兹|Hz|V|A|W|kg|g|ml|L|cm|mm|inch)/g
MeasurementPattern ==
  Global(Cat(<<Decimal, Blanks,
               Words(<<<<"u514b">>, <<"u5343", "u514b">>, <<"u6beb", "u5347">>, <<"u5347">>, <<"u5398", "u7c73">>, <<"u7c73">>, <<"u5bf8">>, <<"u82f1", "u5bf8">>, <<"u74e6">>, <<"u4f0f">>, <<"u5b89">>, <<"u8d6b", "u5179">>,
                       <<"H", "z">>, <<"V">>, <<"A">>, <<"W">>, <<"k", "g">>, <<"g">>,
                       <<"m", "l">>, <<"L">>, <<"c", "m">>, <<"m", "m">>,
                       <<"i", "n", "c", "h">>>>)>>))
\* /([A-Za-z]+[-\w]*\d+[A-Za-z\d]*)/g
ModelPattern ==
  Global(Cat(<<Plus(In(LetterChars)), Star(In(WordChars \cup {"-"})), Plus(Digit),
               Star(In(LetterChars \cup DigitChars))>>))
\* /(\d{4}[-年]\d{1,2}[-月]\d{1,2}[日]?)/g
DatePattern ==
  Global(Cat(<<Rep(Digit, 4, 4), In({"-", "u5e74"}), Rep(Digit, 1, 2), In({"-", "u6708"}),
               Rep(Digit, 1, 2), Opt(Lit("u65e5"))>>))
\* /(GB\d+(?:\.\d+)*[-\d]*|ISO\d+|3C认证|CE认证|FDA认证)/g
CertificationPattern ==
  Global(Alt(<<Cat(<<Word(<<"G", "B">>), Plus(Digit), Star(Cat(<<Lit("."), Plus(Digit)>>)),
                     Star(In(DigitChars \cup {"-"}))>>),
               Cat(<<Word(<<"I", "S", "O">>), Plus(Digit)>>),
               Word(<<"3", "C">> \o <<"u8ba4", "u8bc1">>), Word(<<"C", "E">> \o <<"u8ba4", "u8bc1">>),
               Word(<<"F", "D", "A">> \o <<"u8ba4", "u8bc1">>)>>))
\* const patterns = [...], lines 889-900
patterns ==
  <<StandardPattern, MeasurementPattern, ModelPattern, DatePattern, CertificationPattern>>

\* /X[:：]\s*([^，。\n]+)/g with X one of 营养成分, 配料, 适用肌肤, 保湿度
LabelledClause(label) == Global(Cat(<<Word(label), Colon, Blanks, RestOfClause>>))
\* /X[:：]\s*(\d+(?:\.\d+)?\s*U)/g with X one of 热量, 功率, 电压, 频率 and U the unit
LabelledQuantity(label, unit) == Global(Cat(<<Word(label), Colon, Blanks, Decimal, Blanks, unit>>))
\* /SPF[:：]?\s*(\d+)/g
SpfPattern == Global(Cat(<<Word(<<"S", "P", "F">>), Opt(Colon), Blanks, Plus(Digit)>>))

Food == <<"u98df", "u54c1">>
Nutrition == <<"u8425", "u517b">>
Electronics == <<"u7535", "u5b50">>
Appliance == <<"u7535", "u5668">>
Cosmetics == <<"u5316", "u5986", "u54c1">>
SkinCare == <<"u62a4", "u80a4">>

\* getIndustrySpecificPatterns, lines 929-957
getIndustrySpecificPatterns(hint) ==
  (IF Contains(hint, Food) \/ Contains(hint, Nutrition)
   THEN <<LabelledClause(<<"u8425", "u517b", "u6210", "u5206">>), LabelledClause(<<"u914d", "u6599">>),
          LabelledQuantity(<<"u70ed", "u91cf">>, Words(<<<<"u5343", "u7126">>, <<"k", "J">>, <<"u5361", "u8def", "u91cc">>, <<"k", "c", "a", "l">>>>))>>
   ELSE <<>>)
  \o (IF Contains(hint, Electronics) \/ Contains(hint, Appliance)
      THEN <<LabelledQuantity(<<"u529f", "u7387">>, In({"W", "w", "k", "K", "u74e6"})),
             LabelledQuantity(<<"u7535", "u538b">>, In({"V", "v", "u4f0f"})),
             LabelledQuantity(<<"u9891", "u7387">>, Plus(In({"H", "h", "Z", "z", "u8d6b", "u5179"})))>>
      ELSE <<>>)
  \o (IF Contains(hint, Cosmetics) \/ Contains(hint, SkinCare)
      THEN <<LabelledClause(<<"u9002", "u7528", "u808c", "u80a4">>), SpfPattern, LabelledClause(<<"u4fdd", "u6e7f", "u5ea6">>)>>
      ELSE <<>>)

\* pattern.exec(text) of a RegExp whose lastIndex is given: the indexes where
\* the match starts and ends, counted from 0 as JavaScript counts, or NullMatch.
\* With the g flag the search starts at lastIndex, without it at 0.
NullMatch == [found |-> FALSE, index |-> 0, end |-> 0]
exec(pattern, text, at) ==
  LET from == IF pattern.global THEN at ELSE 0
      starts == {p \in from..Len(text) : Ends(pattern.tree, text, p + 1) # <<>>}
  IN  IF starts = {} THEN NullMatch
      ELSE [found |-> TRUE, index |-> Min(starts),
            end |-> Head(Ends(pattern.tree, text, Min(starts) + 1)) - 1]
\* what exec leaves in pattern.lastIndex: with the g flag the end of the match,
\* or 0 when there is none; without the flag lastIndex is not touched
lastIndexAfter(pattern, match, at) ==
  IF ~pattern.global THEN at
  ELSE IF match.found THEN match.end ELSE 0
\* if (matchedText && !detected.includes(matchedText)) detected.push(matchedText)
pushMatch(list, text, match) ==
  PushNew(list, <<Trim(SubSeq(text, match.index + 1, match.end))>>)

\* performIntelligentAnalysis, lines 844-883, for context = '': the result for
\* the attributes detected and the industry hint
GenericAdvice == "generic-advice"      \* the two lines of the else branch, 1022-1023
FoodAdvice == "food-advice"            \* lines 1010-1012
ElectronicsAdvice == "electronics-advice"   \* lines 1014-1016
CosmeticsAdvice == "cosmetics-advice"  \* lines 1018-1020
IndustryLabel == "**industry** ("      \* **🏭 行业特定分析 (
performIndustrySpecificAnalysis(hint) ==
  IF Contains(hint, Food) \/ Contains(hint, Nutrition) THEN <<FoodAdvice>>
  ELSE IF Contains(hint, Electronics) \/ Contains(hint, Appliance) THEN <<ElectronicsAdvice>>
  ELSE IF Contains(hint, Cosmetics) \/ Contains(hint, SkinCare) THEN <<CosmeticsAdvice>>
  ELSE <<GenericAdvice>>
analysisResult(unstructuredText, detectedAttributes, hint) ==
  <<ResultHeading, NL, NL, OriginalLabel>> \o unstructuredText \o <<NL, NL>>
  \o (IF Len(detectedAttributes) > 0
      THEN <<DetectedHeading, NL>> \o DetectedList(detectedAttributes, 1) \o <<NL>>
      ELSE <<>>)
  \o (IF hint # <<>>
      THEN <<IndustryLabel>> \o hint \o <<")", ":", "*", "*", NL>>
           \o performIndustrySpecificAnalysis(hint) \o <<NL>>
      ELSE <<>>)
  \o <<FormatHeading, NL>> \o generateStructuredTemplate(detectedAttributes)

----------------------------------------------------------------------------
(* The standalone converter scripts/json-to-html.js (src/unnamed/part_000):  *)
(* JSON values as JavaScript sees them, and generateHtmlFromJson.  A value   *)
(* is its type and its content: the characters of a string, the numeral of  *)
(* a number, the items of an array, the <<key, value>> properties of an      *)
(* object in the order of the JSON text.                                     *)

JStr(s) == [type |-> "string", val |-> s]
JNum(numeral) == [type |-> "number", val |-> numeral]
JArr(items) == [type |-> "array", val |-> items]
JObj(props) == [type |-> "object", val |-> props]
JNull == [type |-> "null", val |-> <<>>]
Undefined == [type |-> "undefined", val |-> <<>>]

NameKey == <<"n", "a", "m", "e">>
AttributesKey == <<"a", "t", "t", "r", "i", "b", "u", "t", "e", "s">>
ProductsKey == <<"p", "r", "o", "d", "u", "c", "t", "s">>

\* v is null or undefined: reading a property of it, or Object.entries(v), throws
\* a TypeError
IsNullish(v) == v.type \in {"null", "undefined"}

\* v[key] for one of the three keys above and a value that is not nullish: an
\* object's property, undefined if it has none; a string, a number or an array
\* has no such property
JGet(v, key) ==
  IF v.type = "object" /\ \E i \in 1..Len(v.val) : v.val[i][1] = key
  THEN v.val[Max({i \in 1..Len(v.val) : v.val[i][1] = key})][2]
  ELSE Undefined

\* !v: null, undefined, the empty string and the number 0 are falsy
IsFalsy(v) ==
  \/ IsNullish(v)
  \/ v.type = "string" /\ v.val = <<>>
  \/ v.type = "number" /\ v.val = <<"0">>

\* String(v), which String.prototype.replace applies to a replacement value
RECURSIVE ToStr(_)
RECURSIVE JoinComma(_)
ToStr(v) ==
  CASE v.type = "string" -> v.val
    [] v.type = "number" -> v.val
    [] v.type = "undefined" -> <<"u", "n", "d", "e", "f", "i", "n", "e", "d">>
    [] v.type = "null" -> <<"n", "u", "l", "l">>
    [] v.type = "array" -> JoinComma(v.val)
    [] v.type = "object" ->
         <<"[", "o", "b", "j", "e", "c", "t", SP, "O", "b", "j", "e", "c", "t", "]">>
\* Array.prototype.join: null and undefined items give the empty string
JoinComma(items) ==
  IF items = <<>> THEN <<>>
  ELSE (IF IsNullish(Head(items)) THEN <<>> ELSE ToStr(Head(items)))
       \o (IF Len(items) > 1 THEN <<",">> \o JoinComma(Tail(items)) ELSE <<>>)

\* Object.entries(v) for a value that is not nullish: the properties of an
\* object, the indexed characters of a string or items of an array, nothing for
\* a number
JEntries(v) ==
  CASE v.type = "object" -> ObjectEntries(v.val)
    [] v.type = "string" -> [i \in 1..Len(v.val) |-> <<NumStr(i - 1), JStr(<<v.val[i]>>)>>]
    [] v.type = "array" -> [i \in 1..Len(v.val) |-> <<NumStr(i - 1), v.val[i]>>]
    [] OTHER -> <<>>

\* a variant of the attribute template with the two placeholders exchanged
scriptAttributeTemplateExchanged ==
  <<Indent16, AttrOpen, "{attr_value}", AttrMid, "{attr_name}", AttrClose>>

scriptProductTemplate == <<Indent8, ProductOpen, "{product_name}", ProductMid, NL,
                           "{attributes_html}", NL, ProductClose>>
scriptAttributeTemplate == <<Indent16, AttrOpen, "{attr_name}", AttrMid, "{attr_value}", AttrClose>>

\* the inner loop of generateHtmlFromJson, from the i-th entry on
RECURSIVE scriptAttributesHtml(_, _)
scriptAttributesHtml(entries, i) ==
  IF i > Len(entries) THEN <<>>
  ELSE StringReplace(StringReplace(scriptAttributeTemplate, "{attr_name}", entries[i][1]),
                     "{attr_value}", ToStr(entries[i][2]))
       \o <<NL>> \o scriptAttributesHtml(entries, i + 1)

\* the outer loop of generateHtmlFromJson, from the i-th product on
RECURSIVE scriptProductsHtml(_, _)
scriptProductsHtml(ps, i) ==
  IF i > Len(ps) THEN <<>>
  ELSE StringReplace(StringReplace(scriptProductTemplate, "{product_name}",
                                   ToStr(JGet(ps[i], NameKey))),
                     "{attributes_html}",
                     Trim(scriptAttributesHtml(JEntries(JGet(ps[i], AttributesKey)), 1)))
       \o <<NL>> \o scriptProductsHtml(ps, i + 1)

\* for (const product of v): an array gives its items, a string its characters;
\* any other value is not iterable and the loop throws a TypeError
IsIterable(v) == v.type \in {"array", "string"}
JItems(v) == IF v.type = "string" THEN [i \in 1..Len(v.val) |-> JStr(<<v.val[i]>>)] ELSE v.val

\* whether generateHtmlFromJson throws a TypeError: productsData.products of a
\* nullish productsData, a loop over a value that is not iterable,
\* product.attributes of a nullish product, or Object.entries of a nullish
\* product.attributes
generateHtmlFromJsonThrows(productsData) ==
  \/ IsNullish(productsData)
  \/ ~IsIterable(JGet(productsData, ProductsKey))
  \/ \E i \in 1..Len(JItems(JGet(productsData, ProductsKey))) :
       LET product == JItems(JGet(productsData, ProductsKey))[i]
       IN  IsNullish(product) \/ IsNullish(JGet(product, AttributesKey))

\* its result when it does not throw
generateHtmlFromJson(productsData) ==
  StringReplace(htmlTemplate, "{products_html}",
                Trim(scriptProductsHtml(JItems(JGet(productsData, ProductsKey)), 1)))

\* main, lines 101-106: productsData.products of null throws a TypeError; then
\* if (!productsData.products || !Array.isArray(productsData.products)) throw
MainRejects(productsData) ==
  \/ IsNullish(productsData)
  \/ IsFalsy(JGet(productsData, ProductsKey))
  \/ JGet(productsData, ProductsKey).type # "array"

\* a run's outcome: the exit code and the output file
Exit1 == [exitCode |-> 1, written |-> FALSE, text |-> <<>>]
Wrote(document) == [exitCode |-> 0, written |-> TRUE, text |-> document]

\* main, lines 99-126, for an input file f that can be read: parse, check,
\* generate, write; any exception is caught, reported on stderr and ends the run
\* with exit code 1
fileOutcome(f) ==
  IF ~f.wellFormed \/ MainRejects(f.value) \/ generateHtmlFromJsonThrows(f.value)
  THEN Exit1
  ELSE Wrote(generateHtmlFromJson(f.value))

\* the 'end' callback of the stdin path, lines 80-95, for the text f on stdin:
\* parse, generate, write; no check between them
stdinOutcome(f) ==
  IF ~f.wellFormed \/ generateHtmlFromJsonThrows(f.value)
  THEN Exit1
  ELSE Wrote(generateHtmlFromJson(f.value))

----------------------------------------------------------------------------
(* The requests the model sends.  Every bound is a definition.             *)

MaxPairs == 2        \* pairs of lines of a line-by-line text
MaxColonLines == 3   \* lines of a colon-separated text
MaxBlocks == 3       \* numbered products of a text
MaxBlank == 3        \* characters of a blank text
MaxAttrLines == 2    \* attribute lines of a markdown block
MaxTail == 4         \* characters after the number of a free-form markdown block
MaxAnalysisLen == 4  \* characters of a free-form text to analyze
MaxEntries == 2      \* product entries of a JSON file

\* lines.join('\n')
RECURSIVE JoinLines(_)
JoinLines(lines) ==
  IF lines = <<>> THEN <<>>
  ELSE IF Len(lines) = 1 THEN lines[1]
  ELSE lines[1] \o <<NL>> \o JoinLines(Tail(lines))

SeqsUpTo(S, lo, hi) == UNION {[1..n -> S] : n \in lo..hi}
Distinct(f) == \A i, j \in 1..Len(f) : i # j => f[i] # f[j]

\* the examples of the documentation (README.md 147-189 and the specification)
ExampleLineByLine ==     \* 品牌 / 上海品磊 / 自重 / 1.5-10
  JoinLines(<<PinPai, <<"u4e0a", "u6d77", "u54c1", "u78ca">>, <<"u81ea", "u91cd">>,
              <<"1", ".", "5", "-", "1", "0">>>>)
ExampleColon ==          \* 商品名称：硅胶洗漱包 / 规格：单支装 / 材质：硅胶
  JoinLines(<<ShangPinMingCheng \o <<FWColon, "u7845", "u80f6", "u6d17", "u6f31", "u5305">>,
              GuiGe \o <<FWColon, "u5355", "u652f", "u88c5">>,
              CaiZhi \o <<FWColon, "u7845", "u80f6">>>>)
ExampleNumbered ==       \* 1. 商品名称：A / 规格：x / 2. 商品名称：B / 规格：y
  JoinLines(<<<<"1", ".", SP>> \o ShangPinMingCheng \o <<FWColon, "A">>,
              GuiGe \o <<FWColon, "x">>,
              <<"2", ".", SP>> \o ShangPinMingCheng \o <<FWColon, "B">>,
              GuiGe \o <<FWColon, "y">>>>)
ExampleOrder ==          \* A:1 / B:2 / C:3
  JoinLines(<<<<"A", ":", "1">>, <<"B", ":", "2">>, <<"C", ":", "3">>>>)
ExampleBrand ==          \* 品牌：ACME
  PinPai \o <<FWColon, "A", "C", "M", "E">>
ExampleReadme ==         \* 品牌 / 上海品磊 / 自重 / 1.5-10 / 用途 / 收纳桶
  JoinLines(<<ExampleLineByLine, YongTu, <<"u6536", "u7eb3", "u6876">>>>)
ExampleTime ==           \* 规格：10:30 / 材质：y
  JoinLines(<<GuiGe \o <<FWColon, "1", "0", ":", "3", "0">>, CaiZhi \o <<FWColon, "y">>>>)
ExampleSuffix ==         \* 型号规格：X / 材质：y
  JoinLines(<<XingHao \o GuiGe \o <<FWColon, "X">>, CaiZhi \o <<FWColon, "y">>>>)
ExampleTexts == {ExampleLineByLine, ExampleColon, ExampleNumbered, ExampleOrder, ExampleBrand,
                 ExampleReadme, ExampleTime, ExampleSuffix}

\* line-by-line texts: 2n lines without a colon
AltLines == {PinPai, ShangPinMingCheng, <<"x">>}
LineByLineTexts == {JoinLines(ls) : ls \in UNION {[1..(2 * n) -> AltLines] : n \in 1..MaxPairs}}

\* colon-separated texts: distinct 'key：value' lines
ColonLines == {ShangPinMingCheng \o <<FWColon, "N">>, GuiGe \o <<FWColon, "x">>,
               CaiZhi \o <<FWColon, "y">>, PinPai \o <<FWColon, "B">>,
               YongTu \o <<FWColon, "u">>, <<"A", ":", "1">>}
ColonTexts == {JoinLines(ls) : ls \in {f \in SeqsUpTo(ColonLines, 1, MaxColonLines) : Distinct(f)}}

\* numbered texts: 'i. ' and a body, for i = 1..k
BlockBodies == {JoinLines(<<ShangPinMingCheng \o <<FWColon, "A">>, GuiGe \o <<FWColon, "x">>>>),
                JoinLines(<<ShangPinMingCheng \o <<FWColon, "B">>, GuiGe \o <<FWColon, "y">>>>),
                PinPai \o <<FWColon, "C">>}
NumberedTexts ==
  {JoinLines([i \in 1..Len(bs) |-> NumStr(i) \o <<".", SP>> \o bs[i]]) :
     bs \in SeqsUpTo(BlockBodies, 2, MaxBlocks)}

\* texts that repeat the 商品名称 marker at the start of a line
RepeatedNameTexts ==
  {JoinLines(<<ShangPinMingCheng \o <<FWColon, "A">>, GuiGe \o <<FWColon, "x">>,
               ShangPinMingCheng \o <<FWColon, "B">>, GuiGe \o <<FWColon, "y">>,
               ShangPinMingCheng \o <<FWColon, "C">>, GuiGe \o <<FWColon, "z">>>>),
   JoinLines(<<PinPai \o <<FWColon, "b">>,
               ShangPinMingCheng \o <<FWColon, "B">>,
               ShangPinMingCheng \o <<":", SP, "C">>, CaiZhi \o <<FWColon, "y">>>>)}

\* empty and blank texts
BlankTexts == SeqsUpTo({SP, NL}, 0, MaxBlank)

RawTexts ==
  ExampleTexts \cup LineByLineTexts \cup ColonTexts \cup NumberedTexts \cup RepeatedNameTexts
    \cup BlankTexts

\* markdown: one numbered block, a first line and attribute lines; "$&" (a
\* replacement pattern) and the text of a placeholder are characters of some
MdHeads == {<<"1", ".">>, <<"1", ".", SP, "P">>,
            <<"1", ".", SP, SP>> \o ShangPinMingCheng \o <<FWColon, "N">>,
            <<"1", ".", SP, "{attributes_html}">>}
MdLines == {PinPai \o <<FWColon, "b">>, YongTu \o <<FWColon, "u">>,
            GuiGe \o <<FWColon, ",", Tong>>, HuoHao \o <<FWColon, "h">>,
            ShangPinMingCheng \o <<FWColon, "N">>,
            <<"k", FWColon, "v">>, <<"2", FWColon, "y">>, <<"1", FWColon, "z">>,
            <<"k", FWColon, "$&">>, <<"{attr_value}", FWColon, "w">>}
RECURSIVE IndentLines(_)
IndentLines(ls) ==
  IF ls = <<>> THEN <<>> ELSE <<NL, SP, SP, SP, SP>> \o Head(ls) \o IndentLines(Tail(ls))
BlockMarkdowns == {h \o IndentLines(ls) : h \in MdHeads, ls \in SeqsUpTo(MdLines, 0, MaxAttrLines)}

\* markdown: a number and any short text
TailChars == {NL, SP, FWColon, "x"}
FreeMarkdowns == {<<"1", ".">> \o t : t \in SeqsUpTo(TailChars, 0, MaxTail)}

\* markdown: two blocks, and text that is no block
TwoBlockMarkdowns ==
  {a \o <<NL, NL>> \o b :
     a \in {<<"1", ".", SP, "P">>, <<"1", ".", SP, "P", NL, "k", FWColon, "v">>},
     b \in {<<"2", ".", SP, "Q">>, <<"2", ".", NL, "2", FWColon, "y">>, <<SP, "2", ".", SP, "Q">>, <<"Q">>}}

\* markdown with carriage returns: in a value, and at the ends of the lines
CrMarkdowns ==
  {<<"1", ".", NL, "k", FWColon>> \o t :
     t \in {<<SP, CR, "b">>, <<"a", SP, CR, "b">>, <<CR, SP, CR>>, <<SP, "a", CR, FWColon, "b">>}}
  \cup {<<"1", ".", SP, "P", CR, NL, SP, "k", SP, FWColon, SP, "v", SP, CR, NL, CR, NL,
          "2", ".", CR, NL, SP, FWColon, SP, FWColon, "w", CR, NL>>}

\* markdown without a numbered block
NoBlockMarkdowns == {<<>>, <<NL>>, <<"Q">>, <<SP, "1", ".", SP, "Q">>, <<"k", FWColon, "v">>}

\* markdown whose first line is the placeholder name 产品信息
PlaceholderMarkdowns ==
  {<<"1", ".", SP>> \o ChanPinXinXi \o IndentLines(ls) :
     ls \in {<<>>, <<PinPai \o <<FWColon, "b">>>>, <<<<"k", FWColon, "v">>>>,
             <<ShangPinMingCheng \o <<FWColon, "N">>>>}}

\* markdown whose name, attribute name or value is the replacement pattern for
\* the text after the match
DollarMarkdowns ==
  {<<"1", ".", SP, "P">> \o IndentLines(<<<<"k", FWColon, "$'">>, <<"$'", FWColon, "v">>>>),
   <<"1", ".", SP, "$'">> \o IndentLines(<<<<"$'", FWColon, "$'">>>>)}

MarkdownTexts ==
  BlockMarkdowns \cup FreeMarkdowns \cup TwoBlockMarkdowns \cup NoBlockMarkdowns \cup CrMarkdowns
    \cup PlaceholderMarkdowns \cup DollarMarkdowns

\* what the basic server is sent
BasicMarkdowns ==
  {h \o IndentLines(ls) : h \in MdHeads, ls \in SeqsUpTo(MdLines, 0, 1)}
    \cup TwoBlockMarkdowns \cup NoBlockMarkdowns \cup CrMarkdowns \cup PlaceholderMarkdowns
    \cup DollarMarkdowns
BasicRawTexts == ExampleTexts \cup {<<>>, <<SP, NL>>}

\* text to analyze: short texts, and texts with two patterns
\* texts, industry hints and requests of the step-by-step analysis
MaxScanLen == 3     \* characters of a text whose scan is followed step by step
ScanChars == {"a", "1", ":", "g"}
ScanExamples ==
  {<<"a", "a", ":", "1", "g", SP, "2", "k", "g">>,                   \* aa:1g 2kg
   <<"2", "0", "2", "4", "-", "1", "-", "5", SP, "G", "B", "1", ".", "2", "-", "3", SP,
     "I", "S", "O", "9">>,                                           \* 2024-1-5 GB1.2-3 ISO9
   <<"u70ed", "u91cf">> \o <<":", "5", "k", "J", "uff0c">> \o <<"u914d", "u6599">> \o <<FWColon, "a">>,   \* 热量:5kJ，配料：a
   <<"u529f", "u7387">> \o <<FWColon, "5", "W", SP>> \o <<"u7535", "u538b">> \o <<":", "3", "V">>,       \* 功率：5W 电压:3V
   <<"S", "P", "F", "1", SP, "S", "P", "F", "2">>}                   \* SPF1 SPF2
ScanTexts == SeqsUpTo(ScanChars, 0, MaxScanLen) \cup ScanExamples
Hints == {<<>>, Food, Appliance, SkinCare, Nutrition \o Electronics, <<"a">>}
ScanRequests ==
  {[present |-> TRUE, isString |-> TRUE, text |-> t] : t \in ScanTexts}
  \cup {[present |-> FALSE, isString |-> FALSE, text |-> <<>>],
        [present |-> TRUE, isString |-> FALSE, text |-> <<"1">>]}

AnalysisChars == {"a", FWColon, SP, NL}
ExampleAnalysis ==       \* 品牌：B，规格: x
  PinPai \o <<FWColon, "B", "uff0c">> \o GuiGe \o <<":", SP, "x", SP>>
AnalysisExamples ==
  {ExampleAnalysis,
   <<"a", "a", FWColon, "b", "uff0c", "a", "a", FWColon, "b", NL, "k", "k", ":", SP, NL>>}
AnalysisTexts == SeqsUpTo(AnalysisChars, 0, MaxAnalysisLen) \cup AnalysisExamples

\* the files given to the converter: a text that is no JSON, or a JSON value
GoodEntries ==
  {JObj(<<<<NameKey, JStr(<<"P">>)>>, <<AttributesKey, JObj(<<>>)>>>>),
   JObj(<<<<NameKey, JStr(<<"Q">>)>>,
          <<AttributesKey, JObj(<<<<<<"k">>, JStr(<<"v">>)>>, <<<<"2">>, JStr(<<"y">>)>>>>)>>>>)}
BadEntries ==
  {JObj(<<<<AttributesKey, JObj(<<<<<<"k">>, JStr(<<"v">>)>>>>)>>>>),          \* no name
   JObj(<<<<NameKey, JStr(<<"P">>)>>>>),                                       \* no attributes
   JObj(<<<<NameKey, JNum(<<"5">>)>>, <<AttributesKey, JObj(<<>>)>>>>),        \* name: 5
   JObj(<<<<NameKey, JStr(<<"P">>)>>,
          <<AttributesKey, JObj(<<<<<<"k">>, JNum(<<"5">>)>>>>)>>>>),          \* k: 5
   JObj(<<<<NameKey, JStr(<<"P">>)>>, <<AttributesKey, JStr(<<"a", "b">>)>>>>), \* attributes: "ab"
   JObj(<<<<NameKey, JStr(<<"P">>)>>, <<AttributesKey, JNull>>>>),             \* attributes: null
   JNull}
JsonValues ==
  {JNull, JObj(<<>>), JObj(<<<<ProductsKey, JStr(<<"x">>)>>>>), JObj(<<<<ProductsKey, JStr(<<>>)>>>>),
   JObj(<<<<ProductsKey, JNum(<<"0">>)>>>>), JObj(<<<<ProductsKey, JObj(<<>>)>>>>)}
  \cup {JObj(<<<<ProductsKey, JArr(es)>>>>) : es \in SeqsUpTo(GoodEntries \cup BadEntries, 0, MaxEntries)}
NoJson == [wellFormed |-> FALSE, value |-> Undefined]
JsonFiles == {NoJson} \cup {[wellFormed |-> TRUE, value |-> v] : v \in JsonValues}

\* how a run gets its input: no argument at all; a file that exists and can be
\* read; one that exists and cannot; none (or '-') with a terminal as stdin; none
\* (or '-') with a text piped into stdin
Sources == {"none", "file", "unreadable", "tty", "stdin"}

\* the arguments of a call: rawText / markdownContent / unstructuredText is a
\* string, or it is not (no such property, another type), or there are no
\* arguments at all
StringArgs(text) == [present |-> TRUE, isString |-> TRUE, text |-> text]
NotAString == [present |-> TRUE, isString |-> FALSE, text |-> <<>>]
NoArgs == [present |-> FALSE, isString |-> FALSE, text |-> <<>>]

\* the names the ListTools handlers advertise (enhanced, basic)
Tools == {"format_product_text", "generate_product_html", "process_product_workflow",
          "analyze_unstructured_content"}
\* a variant of the basic list that advertises the analysis tool as well
AdvertisedWithAnalysis == Tools
BasicTools == {"format_product_text", "generate_product_html", "process_product_workflow"}
\* the case labels of the CallTool handlers
Dispatched == {"format_product_text", "generate_product_html", "process_product_workflow",
               "analyze_unstructured_content"}
BasicDispatched == {"format_product_text", "generate_product_html", "process_product_workflow"}
UnknownTool == "no_such_tool"
Servers == {"basic", "enhanced"}

Requests(t) ==
  {NoArgs, NotAString} \cup
  {StringArgs(x) : x \in (CASE t = "generate_product_html" -> MarkdownTexts
                            [] t = "analyze_unstructured_content" -> AnalysisTexts
                            [] t = UnknownTool -> {<<>>}
                            [] OTHER -> RawTexts)}

\* the requests sent to the basic server
BasicRequests(t) ==
  {NoArgs, NotAString} \cup
  {StringArgs(x) : x \in (CASE t = "generate_product_html" -> BasicMarkdowns
                            [] t \in {"format_product_text", "process_product_workflow"}
                                 -> BasicRawTexts
                            [] OTHER -> {<<>>})}

----------------------------------------------------------------------------
(* The server: one tool call at a time (CallToolRequestSchema handler,     *)
(* src/src/index.ts 450-476, and the four handlers, 543-618).  The three   *)
(* collections of the class are state of the server; earlier is a record   *)
(* of one call that has returned, kept to compare a later call with it.    *)

\* a variant that takes the empty string for a missing argument (!args.rawText)
ArgsValidNonEmpty(a) == a.present /\ a.isString /\ a.text # <<>>

\* the text format_product_text returns: `Formatted product information:\n\n${formattedMarkdown}`;
\* the heading is one character of the model
FormattedHeading == "Formatted product information:"
FormatResponse(formattedMarkdown) == <<FormattedHeading, NL, NL>> \o formattedMarkdown

\* !args || typeof args.rawText !== 'string' is false
ArgsValid(a) == a.present /\ a.isString

\* the errors the handlers throw
InvalidParamsError == [mcp |-> TRUE, code |-> "InvalidParams"]
MethodNotFoundError == [mcp |-> TRUE, code |-> "MethodNotFound"]

\* a variant that wraps whatever was thrown
CaughtAndWrapped(error) == "InternalError"

\* catch (error), lines 467-475: an McpError is thrown on as it is, anything else
\* is wrapped into an InternalError; the caller sees the code
Caught(error) == IF error.mcp THEN error.code ELSE "InternalError"

\* The resources of the enhanced server (setupResourceHandlers, lines 479-541).
\* A URI and a MIME type are one string each; a file's text is one character.
MarkdownUri == "file://example/processed_products.md"
HtmlUri == "file://example/product-info-formatted-output.html"
\* what the ListResources handler advertises
Resources == {[uri |-> MarkdownUri, mimeType |-> "text/markdown"],
              [uri |-> HtmlUri, mimeType |-> "text/html"]}
\* the files the ReadResource handler reads, under process.cwd()
MarkdownFile == "example/processed_products.md"
HtmlFile == "example/product-info-formatted-output.html"
ExampleFiles == {MarkdownFile, HtmlFile}
FileText(file) == <<file>>
\* the URIs the model asks for
Uris == {MarkdownUri, HtmlUri, "", "file://example/", "example/processed_products.md",
         "file://example/processed_products.md/", "FILE://EXAMPLE/PROCESSED_PRODUCTS.MD",
         "file://example/product-info-formatted-output.htm", "file://example/README.md"}

\* what readFileSync throws, and the error of the else branch
ReadFileError == [mcp |-> FALSE, code |-> "ENOENT"]
InvalidRequestError == [mcp |-> TRUE, code |-> "InvalidRequest"]

\* a variant that wraps whatever was thrown
ResourceCaughtAndWrapped(error) == "InternalError"

\* catch (error), lines 531-539
ResourceCaught(error) == IF error.mcp THEN error.code ELSE "InternalError"

\* the replies of the handler: the contents, or the code of the McpError
Contents(u, mimeType, text) ==
  [code |-> "ok", uri |-> u, mimeType |-> mimeType, text |-> text]
Failed(code) == [code |-> code, uri |-> "", mimeType |-> "", text |-> <<>>]
NoReply == Failed("")

fields == <<learnedPatterns, customTemplates, attributeUsageStats>>
scan == <<industryHint, patternIndex, lastIndex, detected, iterations>>
call == <<server, tool, args, markdown, products, html, analysis, result>>
run == <<source, json, output, exitCode>>
read == <<uri, readable, reply>>

\* no output file
NoFile == [written |-> FALSE, text |-> <<>>]

\* what a call gives back
Out == <<result, markdown, products, html, analysis>>

\* no call is remembered
NoCall == [tool |-> "", args |-> NoArgs, out |-> <<>>]

\* the calls one of which is remembered
ExampleMarkdown == <<"1", ".", SP, "P">> \o IndentLines(<<<<"k", FWColon, "v">>>>)
Remembered ==
  /\ server = "enhanced"
  /\ args.isString
  /\ args.text \in {ExampleColon, ExampleMarkdown, ExampleAnalysis}

Init ==
  /\ pc = "idle"
  /\ server = ""
  /\ tool = ""
  /\ args = NoArgs
  /\ markdown = <<>>
  /\ products = <<>>
  /\ html = <<>>
  /\ analysis = <<>>
  /\ result = ""
  /\ learnedPatterns = <<>>
  /\ customTemplates = <<>>
  /\ attributeUsageStats = <<>>
  /\ earlier = NoCall
  /\ source = ""
  /\ json = NoJson
  /\ output = NoFile
  /\ exitCode = 0
  /\ uri = ""
  /\ readable = {}
  /\ reply = NoReply
  /\ industryHint = <<>>
  /\ patternIndex = 0
  /\ lastIndex = 0
  /\ detected = <<>>
  /\ iterations = 0

\* a client sends a tools/call request
Call ==
  /\ pc = "idle"
  /\ \E s \in Servers : \E t \in Tools \cup {UnknownTool} :
       \E a \in (IF s = "basic" THEN BasicRequests(t) ELSE Requests(t)) :
         /\ server' = s
         /\ tool' = t
         /\ args' = a
  /\ pc' = "called"
  /\ UNCHANGED <<markdown, products, html, analysis, result, fields, earlier, run, read, scan>>

\* case 'format_product_text'
formatProductText ==
  /\ pc = "called"
  /\ server = "enhanced"
  /\ tool = "format_product_text"
  /\ IF ~ArgsValid(args)
     THEN /\ result' = Caught(InvalidParamsError)
          /\ UNCHANGED <<markdown>>
     ELSE /\ markdown' = parseRawTextToMarkdown(args.text)
          /\ result' = "ok"
  /\ pc' = "done"
  /\ UNCHANGED <<server, tool, args, products, html, analysis, fields, earlier, run, read, scan>>

\* case 'generate_product_html'
generateProductHtml ==
  /\ pc = "called"
  /\ server = "enhanced"
  /\ tool = "generate_product_html"
  /\ IF ~ArgsValid(args)
     THEN /\ result' = Caught(InvalidParamsError)
          /\ UNCHANGED <<products, html>>
     ELSE /\ products' = parseMarkdownContent(args.text)
          /\ html' = generateHtml(products')
          /\ result' = "ok"
  /\ pc' = "done"
  /\ UNCHANGED <<server, tool, args, markdown, analysis, fields, earlier, run, read, scan>>

\* case 'process_product_workflow'
processProductWorkflow ==
  /\ pc = "called"
  /\ server = "enhanced"
  /\ tool = "process_product_workflow"
  /\ IF ~ArgsValid(args)
     THEN /\ result' = Caught(InvalidParamsError)
          /\ UNCHANGED <<markdown, products, html>>
     ELSE /\ markdown' = parseRawTextToMarkdown(args.text)
          /\ products' = parseMarkdownContent(markdown')
          /\ html' = generateHtml(products')
          /\ result' = "ok"
  /\ pc' = "done"
  /\ UNCHANGED <<server, tool, args, analysis, fields, earlier, run, read, scan>>

\* case 'analyze_unstructured_content'
analyzeUnstructuredContent ==
  /\ pc = "called"
  /\ server = "enhanced"
  /\ tool = "analyze_unstructured_content"
  /\ IF ~ArgsValid(args)
     THEN /\ result' = Caught(InvalidParamsError)
          /\ UNCHANGED <<analysis>>
     ELSE /\ analysis' = performIntelligentAnalysis(args.text)
          /\ result' = "ok"
  /\ pc' = "done"
  /\ UNCHANGED <<server, tool, args, markdown, products, html, fields, earlier, run, read, scan>>

\* default: throw new McpError(ErrorCode.MethodNotFound, ...)
unknownTool ==
  /\ pc = "called"
  /\ server = "enhanced"
  /\ tool \notin Dispatched
  /\ result' = Caught(MethodNotFoundError)
  /\ pc' = "done"
  /\ UNCHANGED <<server, tool, args, markdown, products, html, analysis, fields, earlier, run, read, scan>>

\* the basic server, lines 90-172: case 'format_product_text'
basicFormatProductText ==
  /\ pc = "called"
  /\ server = "basic"
  /\ tool = "format_product_text"
  /\ IF ~ArgsValid(args)
     THEN /\ result' = Caught(InvalidParamsError)
          /\ UNCHANGED <<markdown>>
     ELSE /\ markdown' = basicParseRawTextToMarkdown(args.text)
          /\ result' = "ok"
  /\ pc' = "done"
  /\ UNCHANGED <<server, tool, args, products, html, analysis, fields, earlier, run, read, scan>>

\* case 'generate_product_html'
basicGenerateProductHtml ==
  /\ pc = "called"
  /\ server = "basic"
  /\ tool = "generate_product_html"
  /\ IF ~ArgsValid(args)
     THEN /\ result' = Caught(InvalidParamsError)
          /\ UNCHANGED <<products, html>>
     ELSE /\ products' = basicParseMarkdownContent(args.text)
          /\ html' = basicGenerateHtml(products')
          /\ result' = "ok"
  /\ pc' = "done"
  /\ UNCHANGED <<server, tool, args, markdown, analysis, fields, earlier, run, read, scan>>

\* case 'process_product_workflow'
basicProcessProductWorkflow ==
  /\ pc = "called"
  /\ server = "basic"
  /\ tool = "process_product_workflow"
  /\ IF ~ArgsValid(args)
     THEN /\ result' = Caught(InvalidParamsError)
          /\ UNCHANGED <<markdown, products, html>>
     ELSE /\ markdown' = basicParseRawTextToMarkdown(args.text)
          /\ products' = basicParseMarkdownContent(markdown')
          /\ html' = basicGenerateHtml(products')
          /\ result' = "ok"
  /\ pc' = "done"
  /\ UNCHANGED <<server, tool, args, analysis, fields, earlier, run, read, scan>>

\* default: throw new McpError(ErrorCode.MethodNotFound, ...)
basicUnknownTool ==
  /\ pc = "called"
  /\ server = "basic"
  /\ tool \notin BasicDispatched
  /\ result' = Caught(MethodNotFoundError)
  /\ pc' = "done"
  /\ UNCHANGED <<server, tool, args, markdown, products, html, analysis, fields, earlier, run, read, scan>>

\* a variant that counts the calls of each tool in attributeUsageStats
ReturnCountingUsage ==
  /\ pc = "done"
  /\ pc' = "idle"
  /\ server' = ""
  /\ tool' = ""
  /\ args' = NoArgs
  /\ markdown' = <<>>
  /\ products' = <<>>
  /\ html' = <<>>
  /\ analysis' = <<>>
  /\ result' = ""
  /\ attributeUsageStats' = <<tool>>
  /\ UNCHANGED <<learnedPatterns, customTemplates, earlier, run, read, scan>>

\* the response (or the McpError) goes back; nothing of the call is kept in the
\* server.  (earlier takes the call, or not, if none is remembered yet.)
Return ==
  /\ pc = "done"
  /\ pc' = "idle"
  /\ server' = ""
  /\ tool' = ""
  /\ args' = NoArgs
  /\ markdown' = <<>>
  /\ products' = <<>>
  /\ html' = <<>>
  /\ analysis' = <<>>
  /\ result' = ""
  /\ UNCHANGED <<fields, run, read, scan>>
  /\ \/ UNCHANGED earlier
     \/ /\ earlier = NoCall
        /\ Remembered
        /\ earlier' = [tool |-> tool, args |-> args, out |-> Out]

\* node scripts/json-to-html.js [<input.json> | -] <output.html>
RunScript ==
  /\ pc = "idle"
  /\ \E src \in Sources :
       /\ source' = src
       /\ \E f \in (IF src \in {"file", "stdin"} THEN JsonFiles ELSE {NoJson}) : json' = f
  /\ pc' = "script"
  /\ UNCHANGED <<call, fields, earlier, output, exitCode, read, scan>>

\* main, lines 50-127.  Without arguments it prints the usage and exits (53-61);
\* without an input file and with a terminal as stdin it throws (71-73), and so
\* does readFileSync for a file that cannot be read (100); with a text on stdin
\* it sets the callbacks up and returns (75-96); else it takes the file path.
main ==
  /\ pc = "script"
  /\ IF source = "stdin"
     THEN /\ pc' = "waiting"
          /\ UNCHANGED <<output, exitCode>>
     ELSE /\ LET o == IF source = "file" THEN fileOutcome(json) ELSE Exit1
             IN  /\ exitCode' = o.exitCode
                 /\ output' = [written |-> o.written, text |-> o.text]
          /\ pc' = "exited"
  /\ UNCHANGED <<call, fields, earlier, source, json, read, scan>>

\* process.stdin.on('end', ...), lines 80-95
stdinEnd ==
  /\ pc = "waiting"
  /\ LET o == stdinOutcome(json)
     IN  /\ exitCode' = o.exitCode
         /\ output' = [written |-> o.written, text |-> o.text]
  /\ pc' = "exited"
  /\ UNCHANGED <<call, fields, earlier, source, json, read, scan>>

\* the run is over
ScriptExit ==
  /\ pc = "exited"
  /\ pc' = "idle"
  /\ source' = ""
  /\ json' = NoJson
  /\ output' = NoFile
  /\ exitCode' = 0
  /\ UNCHANGED <<call, fields, earlier, read, scan>>

\* a client sends a resources/read request; each example file can be read or not
ReadRequest ==
  /\ pc = "idle"
  /\ \E u \in Uris : uri' = u
  /\ \E fs \in SUBSET ExampleFiles : readable' = fs
  /\ pc' = "reading"
  /\ UNCHANGED <<call, fields, earlier, run, reply, scan>>

\* the ReadResourceRequestSchema handler, lines 499-540
readResource ==
  /\ pc = "reading"
  /\ reply' =
       IF uri = MarkdownUri
       THEN IF MarkdownFile \in readable
            THEN Contents(uri, "text/markdown", FileText(MarkdownFile))
            ELSE Failed(ResourceCaught(ReadFileError))
       ELSE IF uri = HtmlUri
       THEN IF HtmlFile \in readable
            THEN Contents(uri, "text/html", FileText(HtmlFile))
            ELSE Failed(ResourceCaught(ReadFileError))
       ELSE Failed(ResourceCaught(InvalidRequestError))
  /\ pc' = "read"
  /\ UNCHANGED <<call, fields, earlier, run, uri, readable, scan>>

\* the contents (or the McpError) go back
ReadReturn ==
  /\ pc = "read"
  /\ pc' = "idle"
  /\ uri' = ""
  /\ readable' = {}
  /\ reply' = NoReply
  /\ UNCHANGED <<call, fields, earlier, run, scan>>

Next ==
  \/ Call
  \/ formatProductText
  \/ generateProductHtml
  \/ processProductWorkflow
  \/ analyzeUnstructuredContent
  \/ unknownTool
  \/ basicFormatProductText
  \/ basicGenerateProductHtml
  \/ basicProcessProductWorkflow
  \/ basicUnknownTool
  \/ Return
  \/ RunScript
  \/ main
  \/ stdinEnd
  \/ ScriptExit
  \/ ReadRequest
  \/ readResource
  \/ ReadReturn

Spec == Init /\ [][Next]_vars

----------------------------------------------------------------------------
(* analyze_unstructured_content one step at a time: the two for-of loops of *)
(* detectAttributePatterns (lines 902-910 and 915-923) with one exec call   *)
(* per step.  iterations counts the rounds of the running while loop; it    *)
(* stops counting one past the length of the text.                          *)

Text == args.text

AnalyzeRequest ==
  /\ pc = "idle"
  /\ \E a \in ScanRequests : \E h \in Hints :
       /\ args' = a
       /\ industryHint' = h
  /\ server' = "enhanced"
  /\ tool' = "analyze_unstructured_content"
  /\ pc' = "called"
  /\ UNCHANGED <<markdown, products, html, analysis, result, fields, earlier, run, read,
                 patternIndex, lastIndex, detected, iterations>>

\* lines 601-609: the check of the argument, then the call of
\* performIntelligentAnalysis and of detectAttributePatterns (line 849)
analyzeEnter ==
  /\ pc = "called"
  /\ tool = "analyze_unstructured_content"
  /\ industryHint \in Hints
  /\ IF ~ArgsValid(args)
     THEN /\ result' = Caught(InvalidParamsError)
          /\ pc' = "done"
          /\ UNCHANGED <<patternIndex>>
     ELSE /\ pc' = "patterns"
          /\ patternIndex' = 1
          /\ UNCHANGED <<result>>
  /\ UNCHANGED <<server, tool, args, markdown, products, html, analysis, fields, earlier,
                 run, read, industryHint, lastIndex, detected, iterations>>

\* one evaluation of (match = pattern.exec(text)) !== null and, when there is a
\* match, the body of the loop; when there is none the for-of loop goes on to
\* the next pattern, a RegExp whose lastIndex is 0
execStep(list) ==
  \E match \in {exec(list[patternIndex], Text, lastIndex)} :
    /\ lastIndex' = lastIndexAfter(list[patternIndex], match, lastIndex)
    /\ IF match.found
       THEN /\ detected' = pushMatch(detected, Text, match)
            /\ iterations' = IF iterations > Len(Text) THEN iterations ELSE iterations + 1
            /\ UNCHANGED <<patternIndex>>
       ELSE /\ patternIndex' = patternIndex + 1
            /\ iterations' = 0
            /\ UNCHANGED <<detected>>

\* for (const pattern of patterns), lines 902-910
execPattern ==
  /\ pc = "patterns"
  /\ patternIndex <= Len(patterns)
  /\ execStep(patterns)
  /\ UNCHANGED <<pc, call, fields, earlier, run, read, industryHint>>

\* if (industryHint), line 913
endOfPatterns ==
  /\ pc = "patterns"
  /\ patternIndex > Len(patterns)
  /\ pc' = IF industryHint # <<>> THEN "industryPatterns" ELSE "detected"
  /\ patternIndex' = 1
  /\ UNCHANGED <<call, fields, earlier, run, read, industryHint, lastIndex, detected,
                 iterations>>

\* for (const pattern of industryPatterns), lines 915-923
execIndustryPattern ==
  /\ pc = "industryPatterns"
  /\ patternIndex <= Len(getIndustrySpecificPatterns(industryHint))
  /\ execStep(getIndustrySpecificPatterns(industryHint))
  /\ UNCHANGED <<pc, call, fields, earlier, run, read, industryHint>>

endOfIndustryPatterns ==
  /\ pc = "industryPatterns"
  /\ patternIndex > Len(getIndustrySpecificPatterns(industryHint))
  /\ pc' = "detected"
  /\ UNCHANGED <<call, fields, earlier, run, read, scan>>

\* return detected (line 926), the rest of performIntelligentAnalysis and the
\* response of lines 611-617
analyzeReturn ==
  /\ pc = "detected"
  /\ analysis' = analysisResult(Text, detected, industryHint)
  /\ result' = "ok"
  /\ pc' = "done"
  /\ UNCHANGED <<server, tool, args, markdown, products, html, fields, earlier, run, read,
                 scan>>

ScanNext ==
  \/ AnalyzeRequest
  \/ analyzeEnter
  \/ execPattern
  \/ endOfPatterns
  \/ execIndustryPattern
  \/ endOfIndustryPatterns
  \/ analyzeReturn

\* The handler is one synchronous function: once called it runs on, statement
\* after statement, so a step that can be taken is taken.
ScanSpec == Init /\ [][ScanNext]_vars /\ WF_vars(ScanNext)

----------------------------------------------------------------------------
(* What the properties below read off a call: the structure of the text    *)
(* that was sent and of the HTML that came back.                           *)

WorkflowDone ==
  pc = "done" /\ server = "enhanced" /\ tool = "process_product_workflow" /\ result = "ok"
ParsedDone ==
  /\ pc = "done"
  /\ server = "enhanced"
  /\ tool \in {"generate_product_html", "process_product_workflow"}
  /\ result = "ok"

\* the markdown parseMarkdownContent was given in this call
ParsedMarkdown == IF tool = "generate_product_html" THEN args.text ELSE markdown

InputLines == NonEmptyLines(args.text)

\* a line 'key<colon>value' with one colon and text on both sides of it
ColonAt(line) == Min({i \in 1..(Len(line) + 1) : i = Len(line) + 1 \/ IsColon(line[i])})
KeyOf(line) == Trim(SubSeq(line, 1, ColonAt(line) - 1))
ValueOf(line) == Trim(From(line, ColonAt(line) + 1))
IsPairLine(line) ==
  /\ Cardinality({i \in 1..Len(line) : IsColon(line[i])}) = 1
  /\ KeyOf(line) # <<>>
  /\ ValueOf(line) # <<>>
IsColonSeparated(lines) == Len(lines) >= 1 /\ \A i \in 1..Len(lines) : IsPairLine(lines[i])

\* the <<key, value>> pairs a one-product text states, <<>> if it has neither shape
InputPairs(lines) ==
  IF IsLineByLine(lines) THEN [i \in 1..(Len(lines) \div 2) |-> <<lines[2 * i - 1], lines[2 * i]>>]
  ELSE IF IsColonSeparated(lines) THEN [i \in 1..Len(lines) |-> <<KeyOf(lines[i]), ValueOf(lines[i])>>]
  ELSE <<>>
PairKeys(pairs) == [i \in 1..Len(pairs) |-> pairs[i][1]]
IsKnownAttribute(k) == \E i \in 1..Len(knownAttributes) : knownAttributes[i] = k

Chars(s) == {s[i] : i \in 1..Len(s)}
Range(f) == {f[i] : i \in 1..Len(f)}

\* the texts between each opening and the closing that follows it, in document order
RECURSIVE Between(_, _, _)
Between(h, open, close) ==
  LET os == {i \in 1..Len(h) : h[i] = open}
  IN  IF os = {} THEN <<>>
      ELSE LET cs == {j \in (Min(os) + 1)..Len(h) : h[j] = close}
           IN  IF cs = {} THEN <<>>
               ELSE <<SubSeq(h, Min(os) + 1, Min(cs) - 1)>> \o Between(From(h, Min(cs) + 1), open, close)
RenderedProductNames(h) == Between(h, ProductOpen, ProductMid)
RenderedAttrNames(h) == Between(h, AttrOpen, AttrMid)
RenderedAttrValues(h) == Between(h, AttrMid, AttrClose)

RECURSIVE AllKeys(_)
AllKeys(ps) == IF ps = <<>> THEN <<>> ELSE ObjKeys(Head(ps).attributes) \o AllKeys(Tail(ps))

\* the <<name, value>> entries of all records, in the order generateHtml visits them
RECURSIVE AllEntries(_)
AllEntries(ps) ==
  IF ps = <<>> THEN <<>> ELSE ObjectEntries(Head(ps).attributes) \o AllEntries(Tail(ps))

\* the lines that open a numbered product, and the lines of the i-th one
MarkerLines(lines) == {i \in 1..Len(lines) : StartsWithNumber(lines[i])}
NthOf(S, n) == CHOOSE x \in S : Cardinality({y \in S : y < x}) = n - 1
BlockLines(lines, i) ==
  LET ms == MarkerLines(lines)
      last == IF i = Cardinality(ms) THEN Len(lines) ELSE NthOf(ms, i + 1) - 1
  IN  SubSeq(lines, NthOf(ms, i), last)
BlockChars(lines, i) == UNION {Chars(l) : l \in Range(BlockLines(lines, i))}
\* what a text states: the lines of a line-by-line text; else, for each line
\* without its number, the value and (unless it is 商品名称) the key
UnNumbered(line) == IF StartsWithNumber(line) THEN StripNumber(line) ELSE line
InputPieces(lines) ==
  IF IsLineByLine(lines) THEN Range(lines)
  ELSE UNION {{ValueOf(UnNumbered(l))} \cup ({KeyOf(UnNumbered(l))} \ {ShangPinMingCheng}) :
                l \in {x \in Range(lines) : IsPairLine(UnNumbered(x))}}
\* a catalog attribute name and a colon stand at index p of s
CatalogKeyAt(s, p) ==
  \E k \in 1..Len(knownAttributes) :
    /\ StartsAt(s, p, knownAttributes[k])
    /\ p + Len(knownAttributes[k]) <= Len(s)
    /\ IsColon(s[p + Len(knownAttributes[k])])
\* the indices where attr and a colon stand
KeyPositions(s, attr) ==
  {p \in 1..Len(s) : StartsAt(s, p, attr) /\ p + Len(attr) <= Len(s) /\ IsColon(s[p + Len(attr)])}
\* the text after the colon of the first 'attr:' up to the next catalog name with
\* a colon, or to the end
TextUpToNextKey(s, attr) ==
  LET v == Min(KeyPositions(s, attr)) + Len(attr) + 1
      e == Min({i \in v..(Len(s) + 1) : i = Len(s) + 1 \/ CatalogKeyAt(s, i)})
  IN  Trim(SubSeq(s, v, e - 1))
\* the <<key, value>> pairs of the lines of a one-block markdown
MarkdownPairs(md) ==
  LET lines == NonEmptyLines(StripNumber(md))
  IN  [i \in 1..Len(lines) |-> <<KeyOf(lines[i]), ValueOf(lines[i])>>]
\* the split on the first separator, from the k-th on, whose split has more than
\* one non-blank segment; the whole text if there is none
RECURSIVE SplitBySegments(_, _)
SplitBySegments(rawText, k) ==
  IF k > Len(productSeparators) THEN <<rawText>>
  ELSE IF Len(FilterNonBlank(RegexSplit(productSeparators[k], rawText))) > 1
       THEN FilterNonBlank(RegexSplit(productSeparators[k], rawText))
       ELSE SplitBySegments(rawText, k + 1)
RecordChars(p) ==
  Chars(p.name) \cup UNION {Chars(e[1]) \cup Chars(e[2]) : e \in Range(p.attributes)}

----------------------------------------------------------------------------
(* Properties.                                                             *)

\* C1: a text of 2n lines without a colon yields exactly one record whose
\* attributes hold every pair (line 2i, line 2i+1), the first pair included.
\* (Stated for distinct keys other than 商品名称, which C5 takes out of the map.)
C1_LineByLinePairsExtracted ==
  (/\ WorkflowDone
   /\ IsLineByLine(InputLines)
   /\ Distinct(PairKeys(InputPairs(InputLines)))
   /\ ShangPinMingCheng \notin Range(PairKeys(InputPairs(InputLines))))
  => /\ Len(products) = 1
     /\ \A i \in 1..Len(InputPairs(InputLines)) :
          ObjGet(products[1].attributes, InputPairs(InputLines)[i][1])
            = InputPairs(InputLines)[i][2]

\* C2: a colon-separated text whose first line is 商品名称：N and whose other keys
\* are catalog attributes yields one record named exactly N whose attributes are
\* exactly the pairs of the other lines.
C2_ColonNameIsExact ==
  (/\ WorkflowDone
   /\ IsColonSeparated(InputLines)
   /\ Distinct(PairKeys(InputPairs(InputLines)))
   /\ KeyOf(InputLines[1]) = ShangPinMingCheng
   /\ \A i \in 1..Len(InputLines) : IsKnownAttribute(KeyOf(InputLines[i])))
  => /\ Len(products) = 1
     /\ products[1].name = ValueOf(InputLines[1])
     /\ Range(products[1].attributes) = Range(Tail(InputPairs(InputLines)))

\* C3: a text of k >= 2 blocks, each opened by a numeric marker at the start of a
\* line, yields exactly k records, and record i holds text of block i only.
C3_NumberedBlocksSplit ==
  (/\ WorkflowDone
   /\ Len(InputLines) >= 1
   /\ 1 \in MarkerLines(InputLines)
   /\ Cardinality(MarkerLines(InputLines)) >= 2)
  => /\ Len(products) = Cardinality(MarkerLines(InputLines))
     /\ \A i \in 1..Len(products) :
          RecordChars(products[i]) \subseteq (BlockChars(InputLines, i) \cup {SP})

\* C4: for colon-separated lines K1:V1 .. Kn:Vn the HTML lists the attributes
\* K1 .. Kn, all of them, in the order of their lines.
C4_HtmlKeepsInputOrder ==
  (/\ WorkflowDone
   /\ IsColonSeparated(InputLines)
   /\ Distinct(PairKeys(InputPairs(InputLines))))
  => RenderedAttrNames(html) = PairKeys(InputPairs(InputLines))

\* C5: when a block has an attribute 商品名称, wherever it stands and in either
\* shape, the record's name is its value and 商品名称 is no key of the attributes.
C5_NameFromShangPinMingCheng ==
  (/\ WorkflowDone
   /\ InputPairs(InputLines) # <<>>
   /\ Cardinality({i \in 1..Len(InputPairs(InputLines)) :
                     InputPairs(InputLines)[i][1] = ShangPinMingCheng}) = 1)
  => /\ Len(products) = 1
     /\ \A i \in 1..Len(InputPairs(InputLines)) :
          InputPairs(InputLines)[i][1] = ShangPinMingCheng
            => products[1].name = InputPairs(InputLines)[i][2]
     /\ ObjGet(products[1].attributes, ShangPinMingCheng) = <<>>

\* C6: every record parseMarkdownContent returns has a non-empty name, and a block
\* that is a number and nothing else gets the placeholder 产品信息.
C6_NameNeverEmpty ==
  ParsedDone
  => /\ \A i \in 1..Len(products) : products[i].name # <<>>
     /\ (StartsWithNumber(ParsedMarkdown) /\ Trim(StripNumber(ParsedMarkdown)) = <<>>)
          => products = <<[name |-> ChanPinXinXi, attributes |-> EmptyObject]>>

\* a call of generate_product_html whose block has attributes, none of them one of
\* keyAttrs, and no text on its first line: the name is the placeholder
C6_Witness ==
  /\ ParsedDone
  /\ Len(products) = 1
  /\ products[1].name = ChanPinXinXi
  /\ products[1].attributes # EmptyObject

\* C7: without a 商品名称/产品名称 attribute the name comes from the first present of
\* 品牌, 用途, 规格, 型号, 货号, in that order, whatever the order of the lines: the
\* value of that attribute is part of the name.  (Stated for catalog keys.)
C7_NameFromKeyAttrsInPriority ==
  (/\ WorkflowDone
   /\ InputPairs(InputLines) # <<>>
   /\ Distinct(PairKeys(InputPairs(InputLines)))
   /\ \A k \in Range(PairKeys(InputPairs(InputLines))) :
        IsKnownAttribute(k) /\ k # ShangPinMingCheng /\ k # ChanPinMingCheng
   /\ \E j \in 1..Len(keyAttrs) : keyAttrs[j] \in Range(PairKeys(InputPairs(InputLines))))
  => /\ Len(products) = 1
     /\ LET pairs == InputPairs(InputLines)
            j == Min({j \in 1..Len(keyAttrs) : keyAttrs[j] \in Range(PairKeys(pairs))})
        IN  \A i \in 1..Len(pairs) :
              pairs[i][1] = keyAttrs[j] => Contains(products[1].name, pairs[i][2])

C9_BlankInputDegenerate ==
  (WorkflowDone /\ Trim(args.text) = <<>>)
  => /\ (products = <<>> \/ (Len(products) = 1 /\ products[1].attributes = EmptyObject))
     /\ Len(products) = Len(parseMarkdownContent(parseRawTextToMarkdown(<<>>)))

\* a blank text that is not empty, with a line end in it
C9_Witness ==
  /\ WorkflowDone
  /\ Len(args.text) >= 2
  /\ Trim(args.text) = <<>>
  /\ Includes(args.text, NL)
  /\ Len(products) = 1

\* C10: generateHtml lists the records in the order of the sequence and, in each
\* record, the attributes in the order in which they were put into the map, also
\* when a name is a decimal numeral.
C10_HtmlKeepsInsertionOrder ==
  ParsedDone
  => /\ RenderedProductNames(html) = [i \in 1..Len(products) |-> products[i].name]
     /\ RenderedAttrNames(html) = AllKeys(products)

\* C11: the HTML holds, at the placeholder of each record's name and of each
\* attribute's name and value, exactly that string, also when the string holds a
\* '$' pattern or the text of a placeholder.
C11_ValuesInsertedVerbatim ==
  ParsedDone
  => /\ RenderedProductNames(html) = [i \in 1..Len(products) |-> products[i].name]
     /\ RenderedAttrNames(html) = [i \in 1..Len(AllEntries(products)) |-> AllEntries(products)[i][1]]
     /\ RenderedAttrValues(html) = [i \in 1..Len(AllEntries(products)) |-> AllEntries(products)[i][2]]

\* C12: for the documented example texts (line-by-line pairs, colon-separated lines
\* with 商品名称, numbered blocks) the HTML of the workflow holds, as substrings,
\* every attribute name, every attribute value and every product name of the text.
C12_RoundTripContainsInput ==
  (WorkflowDone /\ args.text \in {ExampleLineByLine, ExampleReadme, ExampleColon, ExampleNumbered})
  => \A piece \in InputPieces(InputLines) : Contains(html, piece)

\* C13: generateHtml returns a document for every sequence of records, and for
\* the empty sequence the rich-text-content area of the document holds blanks and
\* line ends only, no product fragment.
C13_RendererTotalEmptyArea ==
  ParsedDone
  => /\ Len(html) >= 2
     /\ Head(html) = HtmlOpen
     /\ html[Len(html)] = HtmlClose
     /\ products = <<>> => \A i \in 2..(Len(html) - 1) : IsSpace(html[i])

\* a markdown without a numbered block was rendered: no record, but a document
C13_Witness ==
  /\ ParsedDone
  /\ tool = "generate_product_html"
  /\ args.text # <<>>
  /\ products = <<>>
  /\ Len(html) >= 2

IsExpectedShape(entry) ==
  /\ entry.type = "object"
  /\ JGet(entry, NameKey).type = "string"
  /\ JGet(entry, AttributesKey).type = "object"
  /\ \A j \in 1..Len(JGet(entry, AttributesKey).val) :
       JGet(entry, AttributesKey).val[j][2].type = "string"

\* C15: the converter fails (exit code 1) and writes no HTML whenever a product
\* entry of the JSON lacks its name or its attributes object, or has a name or an
\* attribute value that is no string.
C15_BadShapeRejected ==
  (/\ pc = "exited"
   /\ source = "file"
   /\ json.wellFormed
   /\ ~IsNullish(json.value)
   /\ JGet(json.value, ProductsKey).type = "array"
   /\ \E i \in 1..Len(JGet(json.value, ProductsKey).val) :
        ~IsExpectedShape(JGet(json.value, ProductsKey).val[i]))
  => /\ exitCode = 1
     /\ ~output.written

\* C16: a call of any of the four tools without arguments, or with a text argument
\* that is no string, comes back as the InvalidParams error, not wrapped into an
\* InternalError, and nothing was extracted, rendered or analyzed for it.
C16_BadArgsRejectedUnwrapped ==
  (pc = "done" /\ server = "enhanced" /\ tool \in Tools /\ (~args.present \/ ~args.isString))
  => /\ result = "InvalidParams"
     /\ markdown = <<>>
     /\ products = <<>>
     /\ html = <<>>
     /\ analysis = <<>>

\* analyze_unstructured_content was called without arguments
C16_Witness ==
  /\ pc = "done"
  /\ server = "enhanced"
  /\ tool = "analyze_unstructured_content"
  /\ ~args.present
  /\ result = "InvalidParams"

\* C17: in every record parseMarkdownContent returns, every attribute value is a
\* non-empty string without a blank or a line end at either end, and no attribute
\* name holds a colon (':' or '：').
C17_AttributesTrimmedNoColon ==
  ParsedDone
  => \A i \in 1..Len(products) : \A j \in 1..Len(products[i].attributes) :
       LET name == products[i].attributes[j][1]
           value == products[i].attributes[j][2]
       IN  /\ value # <<>>
           /\ ~IsSpace(value[1])
           /\ ~IsSpace(value[Len(value)])
           /\ \A k \in 1..Len(name) : ~IsColon(name[k])

\* a value that stops at a carriage return, with a blank before it in the line
C17_Witness ==
  /\ ParsedDone
  /\ tool = "generate_product_html"
  /\ Includes(args.text, CR)
  /\ Len(products) = 1
  /\ products[1].attributes = <<<<<<"k">>, <<"a">>>>>>

\* C18: parseTraditionalFormat extracts every catalog attribute (商品名称 aside) that
\* stands in the block with a colon after it, and its value is the text from that
\* colon up to the next catalog name with a colon, or to the end of the text, also
\* when that text holds a colon or a 'key：' whose key is not in the catalog.
C18_ValueUpToNextCatalogKey ==
  (/\ pc = "done"
   /\ server = "enhanced"
   /\ tool = "format_product_text"
   /\ result = "ok"
   /\ ~IsLineByLine(InputLines)
   /\ splitIntoProducts(args.text) = <<args.text>>)
  => LET s == Trim(CollapseSpace(args.text))
     IN  \A k \in 1..Len(knownAttributes) :
           (/\ knownAttributes[k] # ShangPinMingCheng
            /\ KeyPositions(s, knownAttributes[k]) # {}
            /\ TextUpToNextKey(s, knownAttributes[k]) # <<>>)
           => Contains(markdown \o <<NL>>,
                       knownAttributes[k] \o <<FWColon>> \o TextUpToNextKey(s, knownAttributes[k])
                         \o <<NL>>)

\* C19: a span 'key：value' of the text is extracted under at most one catalog
\* attribute, also when a catalog name is the end of a longer one that stands in
\* the text (规格 in 型号规格): for colon-separated lines with catalog keys and
\* pairwise different values, no value is emitted under two different names.
C19_SpanExtractedOnce ==
  (/\ pc = "done"
   /\ server = "enhanced"
   /\ tool = "format_product_text"
   /\ result = "ok"
   /\ IsColonSeparated(InputLines)
   /\ \A i \in 1..Len(InputLines) : IsKnownAttribute(KeyOf(InputLines[i]))
   /\ \A i, j \in 1..Len(InputLines) : i # j => ValueOf(InputLines[i]) # ValueOf(InputLines[j])
   /\ splitIntoProducts(args.text) = <<args.text>>)
  => \A i, j \in 1..Len(MarkdownPairs(markdown)) :
       MarkdownPairs(markdown)[i][1] # MarkdownPairs(markdown)[j][1]
         => MarkdownPairs(markdown)[i][2] # MarkdownPairs(markdown)[j][2]

\* C20: a text that is not line-by-line is split on the first of the separators
\* (number, Chinese number, 产品:, 商品名称:) whose split has more than one
\* non-blank segment, and is one block if there is no such separator: the
\* markdown numbers exactly these segments.
C20_SplitOnFirstSeparatorWithSegments ==
  (/\ pc = "done"
   /\ server = "enhanced"
   /\ tool = "format_product_text"
   /\ result = "ok"
   /\ ~IsLineByLine(InputLines))
  => /\ splitIntoProducts(args.text) = SplitBySegments(args.text, 1)
     /\ markdown = Trim(NumberedBlocks(SplitBySegments(args.text, 1), 1))

\* C21: in process_product_workflow there are as many records as splitIntoProducts
\* returns blocks, in the same order: record i is the record of block i alone, a
\* degenerate one when nothing of the block is recognised.
C21_OneRecordPerBlock ==
  WorkflowDone
  => LET blocks == splitIntoProducts(args.text)
     IN  /\ Len(products) = Len(blocks)
         /\ RenderedProductNames(html) = [i \in 1..Len(blocks) |-> products[i].name]
         /\ \A i \in 1..Len(blocks) :
              <<products[i]>> = parseMarkdownContent(Trim(NumberedBlocks(<<blocks[i]>>, 1)))

\* three numbered blocks went through the workflow and gave three records with
\* attributes
C21_Witness ==
  /\ WorkflowDone
  /\ Len(splitIntoProducts(args.text)) = 3
  /\ Len(products) = 3
  /\ \A i \in 1..3 : products[i].attributes # EmptyObject

\* the text between index p and the end of its line, trimmed
LineFrom(s, p) ==
  Trim(SubSeq(s, p, Min({i \in p..(Len(s) + 1) : i = Len(s) + 1 \/ s[i] = NL}) - 1))

\* C22: when the text is split on a repeated 商品名称 marker, every block that
\* follows a marker yields a record whose name is the value that followed the
\* marker, the blocks after the first included.
C22_NameAfterMarkerPreserved ==
  (/\ WorkflowDone
   /\ ~IsLineByLine(InputLines)
   /\ \A k \in 1..3 : Len(Matches(productSeparators[k], args.text, 1)) <= 1
   /\ Len(Matches(SepShangPin, args.text, 1)) > 1)
  => LET ms == Matches(SepShangPin, args.text, 1)
         first == Len(splitIntoProducts(args.text)) - Len(ms)
     IN  /\ Len(products) = first + Len(ms)
         /\ \A k \in 1..Len(ms) : products[first + k].name = LineFrom(args.text, ms[k][2])

FileOf(u) == IF u = MarkdownUri THEN MarkdownFile ELSE HtmlFile

C25_WorkflowIsComposition ==
  WorkflowDone
  => /\ markdown = parseRawTextToMarkdown(args.text)
     /\ html = generateHtml(parseMarkdownContent(FormatResponse(markdown)))

\* the colon-separated example went through the workflow
C25_Witness ==
  /\ WorkflowDone
  /\ args.text = ExampleColon
  /\ Len(products) = 1
  /\ Contains(html, <<"u7845", "u80f6">>)

\* a run of the converter that fails: no argument, an input that cannot be read,
\* a text that is no JSON, 'products' missing or no array, an exception during
\* the generation
IsFailingRun ==
  \/ source \in {"none", "unreadable", "tty"}
  \/ ~json.wellFormed
  \/ IsNullish(json.value)
  \/ JGet(json.value, ProductsKey).type # "array"
  \/ generateHtmlFromJsonThrows(json.value)

\* C26: every failing run of the converter exits with code 1 and writes no
\* output file; an output file is written only after the generation of the HTML
\* has completed, and holds that HTML.
C26_FailingRunWritesNothing ==
  pc = "exited"
  => /\ IsFailingRun => (exitCode = 1 /\ ~output.written)
     /\ output.written => (/\ json.wellFormed
                           /\ ~generateHtmlFromJsonThrows(json.value)
                           /\ output.text = generateHtmlFromJson(json.value))

\* C27: with an output file given, the stdin path and the file path agree on every
\* JSON content: both fail with exit code 1, or both write the same HTML.
C27_StdinAndFileAgree ==
  (pc = "exited" /\ source \in {"file", "stdin"})
  => LET other == IF source = "file" THEN stdinOutcome(json) ELSE fileOutcome(json)
     IN  /\ exitCode = other.exitCode
         /\ output = [written |-> other.written, text |-> other.text]

\* a document without the line ends and indentations of the templates
RECURSIVE Squeeze(_)
Squeeze(h) ==
  IF h = <<>> THEN <<>>
  ELSE (IF Head(h) \in {NL, Indent8, Indent16} THEN <<>> ELSE <<Head(h)>>) \o Squeeze(Tail(h))

\* the records as the JSON file of the converter states them
AsJson(ps) ==
  JObj(<<<<ProductsKey,
           JArr([i \in 1..Len(ps) |->
                   JObj(<<<<NameKey, JStr(ps[i].name)>>,
                          <<AttributesKey,
                            JObj([j \in 1..Len(ps[i].attributes) |->
                                    <<ps[i].attributes[j][1],
                                      JStr(ps[i].attributes[j][2])>>])>>>>)])>>>>)

\* a call of either server that parsed a markdown and rendered the records
RenderedDone ==
  /\ pc = "done"
  /\ tool \in {"generate_product_html", "process_product_workflow"}
  /\ result = "ok"

\* C28: the three renderers are equivalent: for every sequence of records the
\* documents of the basic generateHtml, of the enhanced generateHtml and of
\* generateHtmlFromJson are the same up to the line ends and indentations between
\* the fragments, and so are the records, names and values they show and their
\* order.
C28_RenderersEquivalent ==
  RenderedDone
  => /\ html = (IF server = "basic" THEN basicGenerateHtml(products) ELSE generateHtml(products))
     /\ Squeeze(basicGenerateHtml(products)) = Squeeze(generateHtml(products))
     /\ ~generateHtmlFromJsonThrows(AsJson(products))
     /\ Squeeze(generateHtmlFromJson(AsJson(products))) = Squeeze(generateHtml(products))

\* two records were rendered, one with an attribute; the documents of the three
\* renderers differ from each other as they stand
C28_Witness ==
  /\ RenderedDone
  /\ Len(products) = 2
  /\ products[1].attributes # EmptyObject
  /\ basicGenerateHtml(products) # generateHtml(products)
  /\ generateHtmlFromJson(AsJson(products)) # generateHtml(products)
  /\ generateHtmlFromJson(AsJson(products)) # basicGenerateHtml(products)

\* the names the first lines of the numbered blocks of a markdown give: the text
\* after the number, trimmed
FirstLineTexts(md) ==
  LET blocks == RegexSplit(SepBlankLine, md)
  IN  {Trim(StripNumber(Trim(SplitChar(blocks[i], NL)[1]))) :
         i \in {j \in 1..Len(blocks) : Trim(blocks[j]) # <<>> /\ StartsWithNumber(blocks[j])}}

\* C29: for a markdown in which the first line of every numbered block has text
\* after the number, the basic and the enhanced parseMarkdownContent return the
\* same records, names and attributes.
C29_ParsersAgreeOnNamedBlocks ==
  (RenderedDone /\ <<>> \notin FirstLineTexts(ParsedMarkdown))
  => /\ products = (IF server = "basic" THEN basicParseMarkdownContent(ParsedMarkdown)
                    ELSE parseMarkdownContent(ParsedMarkdown))
     /\ basicParseMarkdownContent(ParsedMarkdown) = parseMarkdownContent(ParsedMarkdown)

\* C30: analyze_unstructured_content terminates for every text and industry hint:
\* no while loop of detectAttributePatterns runs more rounds than the text has
\* characters, every round that finds a match moves lastIndex forward by at least
\* one character, and every call reaches its result.
Scanning == pc \in {"patterns", "industryPatterns"}
MatchRound == Scanning /\ pc' = pc /\ patternIndex' = patternIndex
C30_AnalysisTerminates ==
  /\ [](Scanning => iterations <= Len(Text))
  /\ [][MatchRound => lastIndex' > lastIndex]_vars
  /\ ((pc = "called") ~> (pc = "done"))
\* an industry pattern has matched twice and its scan has reached the end of the text
C30_Witness ==
  /\ pc = "industryPatterns"
  /\ iterations = 2
  /\ lastIndex = Len(Text)
  /\ Len(detected) >= 2
====
